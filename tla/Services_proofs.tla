---------------------------- MODULE Services_proofs ----------------------------
(* Proofs about the parts that Services puts together, for any values of      *)
(* their constants.                                                           *)
EXTENDS Services, Integers, Sequences, WellFoundedInduction, FiniteSetTheorems, TLAPS

\* A behaviour stays with its part.
LEMMA OnePart ==
    ASSUME [Next]_vars
    PROVE  /\ part' = part
           /\ part = "network" => [Network!Next]_(Network!vars)
           /\ part = "barrier" => [Barrier!Next]_(Barrier!vars)
           /\ part = "transport" => [Transport!Next]_(Transport!vars)
           /\ part = "deployment" => [Deployment!Next]_(Deployment!vars)
           /\ part = "aws" => [Aws!Next]_(Aws!vars)
           /\ part = "gateway" => [Gate!Next]_(Gate!vars)
           /\ part = "keystore" => [Keystore!Next]_(Keystore!vars)
           /\ part = "checks" => [Checks!Next]_(Checks!vars)
<1>1. CASE UNCHANGED vars
  BY <1>1 DEF vars, Network!vars, Barrier!vars, Transport!vars, Deployment!vars, Aws!vars,
     Gate!vars, Keystore!vars, Checks!vars
<1>2. CASE Next
  BY <1>2 DEF Next, NetworkStep, BarrierStep, TransportStep, DeploymentStep, AwsStep,
              GatewayStep, KeystoreStep, ChecksStep
<1> QED
  BY <1>1, <1>2

-----------------------------------------------------------------------------
(* The network: see NodeNetwork_proofs *)

\* What its proofs ask of the constants.
LEMMA NetworkParameters == Network!Parameters
<1>1. Network!IsFiniteSet(Node)
  BY NetworkAssumption DEF IsFiniteSet, Network!IsFiniteSet
<1> QED
  BY <1>1, NetworkAssumption DEF Network!Parameters, Network!Records

\* A node on record has its identity on record, whatever snapshots cross.
THEOREM ReadableCorrect == Spec => []NetworkReadable
<1> DEFINE Inv == part = "network" => Network!NetworkInv
<1>0. Network!Parameters
  BY NetworkParameters
<1>1. Init => Inv
  BY <1>0, Network!NetworkInit DEF Init
<1>2. Inv /\ [Next]_vars => Inv'
  BY <1>0, OnePart, Network!NetworkNext
<1>3. Inv => NetworkReadable
  BY <1>0, Network!NetworkAgrees DEF NetworkReadable
<1> QED
  BY <1>1, <1>2, <1>3, PTL DEF Spec

\* No update from a peer takes away or rewrites the record a running node has of itself.
THEOREM OwnRecordCorrect == Spec => []OwnRecordStays
<1> DEFINE Inv == part = "network" => Network!NetworkInv
<1>0. Network!Parameters
  BY NetworkParameters
<1>1. Init => Inv
  BY <1>0, Network!NetworkInit DEF Init
<1>2. Inv /\ [Next]_vars => Inv'
  BY <1>0, OnePart, Network!NetworkNext
<1>3. Inv => OwnRecordStays
  BY <1>0, Network!NetworkAgrees DEF OwnRecordStays
<1> QED
  BY <1>1, <1>2, <1>3, PTL DEF Spec

\* Nodes that join know each other when all joins are over, as long as the joins are simple.
THEOREM JoinedCorrect == Spec => []JoinedKnowEachOther
<1> DEFINE Inv == part = "network" => Network!NetworkInv /\ Network!JoinedInv
<1>0. Network!Parameters
  BY NetworkParameters
<1>1. Init => Inv
  BY <1>0, Network!NetworkInit, Network!JoinedInit DEF Init
<1>2. Inv /\ [Next]_vars => Inv'
  BY <1>0, OnePart, Network!NetworkNext, Network!JoinedNext
<1>3. Inv => JoinedKnowEachOther
  BY <1>0, Network!JoinedAgree DEF JoinedKnowEachOther
<1> QED
  BY <1>1, <1>2, <1>3, PTL DEF Spec

-----------------------------------------------------------------------------
(* The barrier of a batch and the transport: see the modules of their proofs *)

\* A runner past the barrier knows the ports of all members of its batch.
THEOREM BarrierCorrect == Spec => []BarrierHolds
<1> DEFINE Inv == part = "barrier" => Barrier!BarrierInv
<1>1. Init => Inv
  BY Barrier!BarrierInit DEF Init
<1>2. Inv /\ [Next]_vars => Inv'
  BY OnePart, Barrier!BarrierNext
<1>3. Inv => BarrierHolds
  BY Barrier!BarrierAgrees DEF BarrierHolds
<1> QED
  BY <1>1, <1>2, <1>3, PTL DEF Spec

\* A runner waits at the barrier only while somebody is going to release it, a member was
\* cancelled or gave up, or its release was lost.
THEOREM WaitsCorrect == Spec => []WaitsForSomebody
<1> DEFINE Inv == part = "barrier" => Barrier!BarrierInv
<1>1. Init => Inv
  BY Barrier!BarrierInit DEF Init
<1>2. Inv /\ [Next]_vars => Inv'
  BY OnePart, Barrier!BarrierNext
<1>3. Inv => WaitsForSomebody
  BY Barrier!BarrierAgrees DEF WaitsForSomebody
<1> QED
  BY <1>1, <1>2, <1>3, PTL DEF Spec

\* A handler of the P2P service is given the attachment of its own request, complete.
THEOREM TransfersCorrect == Spec => []TransfersKeptApart
<1> DEFINE Inv == part = "transport" => Transport!TransportInv
<1>0. Transport!Parameters
  BY ServicesAssumption DEF Transport!Parameters
<1>1. Init => Inv
  BY <1>0, Transport!TransportInit DEF Init
<1>2. Inv /\ [Next]_vars => Inv'
  BY <1>0, OnePart, Transport!TransportNext
<1>3. Inv => TransfersKeptApart
  BY <1>0, Transport!TransfersApart DEF TransfersKeptApart
<1> QED
  BY <1>1, <1>2, <1>3, PTL DEF Spec

-----------------------------------------------------------------------------
(* Deployment of processors *)

\* Types, and what the kind of RTI excludes.
LEMMA DeploymentTyped ==
    ASSUME Deployment!DeploymentTypes, Deployment!Next PROVE Deployment!DeploymentTypes'
<1> USE ServicesAssumption
        DEF Deployment!DeploymentTypes, Deployment!TypeOK, Deployment!RequestsKnown,
            Deployment!OnlyAwsMoves, Deployment!States, Deployment!Busy, Deployment!Deploying,
            Deployment!Undeploying, Deployment!Requests
<1>1. ASSUME NEW i \in Deployment!Requests, NEW p \in Proc, Deployment!Check(i, p)
      PROVE  Deployment!DeploymentTypes'
  BY <1>1 DEF Deployment!Check, Deployment!New, Deployment!Readable
<1>2. ASSUME NEW i \in Deployment!Requests, NEW p \in Proc, Deployment!Undeploy(i, p)
      PROVE  Deployment!DeploymentTypes'
  BY <1>2 DEF Deployment!Undeploy, Deployment!New
<1>3. ASSUME NEW i \in Deployment!Requests, Deployment!Place(i)
      PROVE  Deployment!DeploymentTypes'
  BY <1>3 DEF Deployment!Place, Deployment!Write, Deployment!Goto
<1>4. ASSUME NEW i \in Deployment!Requests, Deployment!StartWorker(i)
      PROVE  Deployment!DeploymentTypes'
  BY <1>4 DEF Deployment!StartWorker, Deployment!Goto
<1>5. ASSUME NEW i \in Deployment!Requests, Deployment!Lookup(i)
      PROVE  Deployment!DeploymentTypes'
  BY <1>5 DEF Deployment!Lookup, Deployment!Goto
<1>6. ASSUME NEW i \in Deployment!Requests, Deployment!FindImage(i)
      PROVE  Deployment!DeploymentTypes'
  BY ZenonT(40), <1>6 DEF Deployment!FindImage, Deployment!Goto, Deployment!Found, Deployment!InDocker
<1>7. ASSUME NEW i \in Deployment!Requests, Deployment!Load(i)
      PROVE  Deployment!DeploymentTypes'
  BY <1>7 DEF Deployment!Load, Deployment!DockerLoad, Deployment!Goto, Deployment!Found
<1>8. ASSUME NEW i \in Deployment!Requests, Deployment!Platform(i)
      PROVE  Deployment!DeploymentTypes'
  <2>1. PICK pc \in {"push", "rebuild"} : v4' = [v4 EXCEPT ![i].pc = pc]
    BY <1>8 DEF Deployment!Platform, Deployment!Usable, Deployment!Goto
  <2> QED
    BY <1>8, <2>1 DEF Deployment!Platform
<1>18. ASSUME NEW i \in Deployment!Requests, Deployment!DeleteForeign(i)
      PROVE  Deployment!DeploymentTypes'
  BY <1>18 DEF Deployment!DeleteForeign, Deployment!DockerDelete, Deployment!Goto
<1>9. ASSUME NEW i \in Deployment!Requests, Deployment!Build(i)
      PROVE  Deployment!DeploymentTypes'
  BY <1>9 DEF Deployment!Build, Deployment!Goto
<1>10. ASSUME NEW i \in Deployment!Requests, Deployment!Push(i)
      PROVE  Deployment!DeploymentTypes'
  BY <1>10 DEF Deployment!Push, Deployment!Goto
<1>11. ASSUME NEW i \in Deployment!Requests, Deployment!Ready(i)
      PROVE  Deployment!DeploymentTypes'
  BY <1>11 DEF Deployment!Ready, Deployment!Write, Deployment!InDocker, Deployment!Goto
<1>12. ASSUME NEW i \in Deployment!Requests, Deployment!Fails(i)
      PROVE  Deployment!DeploymentTypes'
  BY <1>12 DEF Deployment!Fails, Deployment!Failed, Deployment!Write, Deployment!Goto
<1>13. ASSUME NEW i \in Deployment!Requests, Deployment!Deregister(i)
      PROVE  Deployment!DeploymentTypes'
  <2>1. PICK pc \in {"delete", "remove"} : v4' = [v4 EXCEPT ![i].pc = pc]
    BY <1>13 DEF Deployment!Deregister, Deployment!Goto
  <2> QED
    BY <1>13, <2>1 DEF Deployment!Deregister
<1>14. ASSUME NEW i \in Deployment!Requests, Deployment!DeleteImage(i)
      PROVE  Deployment!DeploymentTypes'
  BY <1>14 DEF Deployment!DeleteImage, Deployment!Goto
<1>15. ASSUME NEW i \in Deployment!Requests, Deployment!Remove(i)
      PROVE  Deployment!DeploymentTypes'
  <2>1. v4' = [v4 EXCEPT ![i].pc = "ended"] /\ v4[i].pc = "remove"
    BY <1>15 DEF Deployment!Remove, Deployment!Goto
  <2>2. v2' \in [Proc -> Deployment!States] /\ UNCHANGED <<v1, v3, v5, v6>>
    BY <1>15 DEF Deployment!Remove
  <2> QED
    BY <2>1, <2>2
<1>16. ASSUME NEW p \in Proc, Deployment!UndeployFailed(p) PROVE Deployment!DeploymentTypes'
  BY <1>16 DEF Deployment!UndeployFailed
<1>17. CASE Deployment!Restart
  BY <1>17 DEF Deployment!Restart, Deployment!NoWork
<1> QED
  BY <1>1, <1>2, <1>3, <1>4, <1>5, <1>6, <1>7, <1>8, <1>9, <1>10, <1>11, <1>12, <1>13, <1>14,
     <1>15, <1>16, <1>17, <1>18 DEF Deployment!Next

\* A worker at one of the steps that write no record goes on with the same work.
LEMMA WorkerGoesOn ==
    ASSUME Deployment!DeploymentTypes, NEW i \in Deployment!Requests,
           \/ Deployment!StartWorker(i) \/ Deployment!Lookup(i) \/ Deployment!FindImage(i)
           \/ Deployment!Load(i) \/ Deployment!Platform(i) \/ Deployment!DeleteForeign(i)
           \/ Deployment!Build(i)
           \/ Deployment!Push(i) \/ Deployment!Deregister(i) \/ Deployment!DeleteImage(i)
    PROVE  /\ v2' = v2 /\ v8' = v8
           /\ \A k \in Deployment!Requests, p \in Proc :
                 /\ Deployment!Deploys(k, p) => Deployment!Deploys(k, p)'
                 /\ Deployment!Undeploys(k, p) => Deployment!Undeploys(k, p)'
<1> USE DEF Deployment!Goto, Deployment!Deploying, Deployment!Undeploying
<1>1. PICK pc : /\ v4' = [v4 EXCEPT ![i].pc = pc]
                /\ v4[i].pc \in {"placed"} \cup Deployment!Deploying => pc \in Deployment!Deploying
                /\ v4[i].pc \in Deployment!Undeploying => pc \in Deployment!Undeploying
  <2>1. CASE Deployment!StartWorker(i) \/ Deployment!Lookup(i) \/ Deployment!Load(i)
    BY <2>1 DEF Deployment!StartWorker, Deployment!Lookup, Deployment!Load, Deployment!Found
  <2>2. CASE Deployment!FindImage(i)
    BY <2>2 DEF Deployment!FindImage, Deployment!Found
  <2>3. CASE Deployment!Platform(i) \/ Deployment!DeleteForeign(i)
    BY <2>3 DEF Deployment!Platform, Deployment!Usable, Deployment!DeleteForeign
  <2>4. CASE Deployment!Build(i)
    BY <2>4 DEF Deployment!Build
  <2>5. CASE Deployment!Push(i) \/ Deployment!Deregister(i) \/ Deployment!DeleteImage(i)
    BY <2>5 DEF Deployment!Push, Deployment!Deregister, Deployment!DeleteImage
  <2> QED
    BY <2>1, <2>2, <2>3, <2>4, <2>5
<1>2. v2' = v2 /\ v8' = v8
  BY DEF Deployment!StartWorker, Deployment!Lookup, Deployment!FindImage, Deployment!Load,
         Deployment!Platform, Deployment!DeleteForeign, Deployment!Build, Deployment!Push,
         Deployment!Deregister,
         Deployment!DeleteImage
<1>3. \A k \in Deployment!Requests :
        v4'[k].proc = v4[k].proc /\ v4'[k].pc = IF k = i THEN pc ELSE v4[k].pc
  BY <1>1 DEF Deployment!DeploymentTypes, Deployment!TypeOK
<1> QED
  BY <1>1, <1>2, <1>3 DEF Deployment!Deploys, Deployment!Undeploys

\* A busy record keeps its worker.
LEMMA RecordsKept ==
    ASSUME Deployment!DeploymentTypes, Deployment!RecordsFollowWork, Deployment!Next
    PROVE  Deployment!RecordsFollowWork'
<1> USE DEF Deployment!Goto, Deployment!Write, Deployment!Deploying, Deployment!Undeploying,
            Deployment!RecordsFollowWork
<1>1. /\ v2 \in [Proc -> Deployment!States]
      /\ v4 \in [Deployment!Requests -> [proc : Proc \cup {NoProc},
                    pc : {"none", "checked", "placed", "ended"} \cup Deployment!Deploying
                           \cup Deployment!Undeploying]]
      /\ \A i \in Deployment!Requests : v4[i].pc # "none" => v4[i].proc \in Proc
  BY DEF Deployment!DeploymentTypes, Deployment!TypeOK, Deployment!RequestsKnown
<1>2. ASSUME NEW i \in Deployment!Requests, NEW p \in Proc,
             Deployment!Check(i, p) \/ Deployment!Undeploy(i, p)
      PROVE  Deployment!RecordsFollowWork'
  <2>1. /\ v4[i].pc = "none" /\ v4'[i].proc = p
        /\ \A k \in Deployment!Requests \ {i} : v4'[k] = v4[k]
    BY <1>1, <1>2 DEF Deployment!Check, Deployment!Undeploy, Deployment!New
  <2>2. \A k \in Deployment!Requests, q \in Proc :
          /\ Deployment!Deploys(k, q) => Deployment!Deploys(k, q)'
          /\ Deployment!Undeploys(k, q) => Deployment!Undeploys(k, q)'
    BY <2>1 DEF Deployment!Deploys, Deployment!Undeploys
  <2>3. CASE Deployment!Check(i, p)
    BY <2>2, <2>3 DEF Deployment!Check
  <2>4. CASE Deployment!Undeploy(i, p)
    <3>1. Deployment!Undeploys(i, p)'
      BY <1>1, <2>4 DEF Deployment!Undeploy, Deployment!Undeploys
    <3>2. v2' = [v2 EXCEPT ![p] = "undeploy"] /\ v8' = v8
      BY <2>4 DEF Deployment!Undeploy
    <3> QED
      BY <1>1, <2>2, <3>1, <3>2
  <2> QED
    BY <1>2, <2>3, <2>4
<1>3. ASSUME NEW i \in Deployment!Requests, Deployment!Place(i)
      PROVE  Deployment!RecordsFollowWork'
  <2>1. PICK p \in Proc : p = v4[i].proc
    BY <1>1, <1>3 DEF Deployment!Place
  <2>2. Deployment!Deploys(i, p)'
    BY <1>1, <1>3, <2>1 DEF Deployment!Place, Deployment!Deploys
  <2>3. \A k \in Deployment!Requests, q \in Proc :
          /\ Deployment!Deploys(k, q) => Deployment!Deploys(k, q)'
          /\ Deployment!Undeploys(k, q) => Deployment!Undeploys(k, q)'
    BY <1>1, <1>3 DEF Deployment!Place, Deployment!Deploys, Deployment!Undeploys
  <2>4. v2' = [v2 EXCEPT ![p] = "deploy"] /\ v8' = v8 \ {p}
    BY <1>3, <2>1 DEF Deployment!Place
  <2> QED
    BY <1>1, <2>2, <2>3, <2>4
<1>4. ASSUME NEW i \in Deployment!Requests,
             Deployment!Ready(i) \/ Deployment!Fails(i) \/ Deployment!Remove(i)
      PROVE  Deployment!RecordsFollowWork'
  <2>1. PICK p \in Proc : p = v4[i].proc
    BY <1>1, <1>4 DEF Deployment!Ready, Deployment!Fails, Deployment!Remove
  <2>2. /\ v2'[p] \in {"ready", "failed", "none"} /\ v8' = v8 \ {p}
        /\ \A q \in Proc \ {p} : v2'[q] = v2[q]
    BY <1>1, <1>4, <2>1 DEF Deployment!Ready, Deployment!Fails, Deployment!Failed,
       Deployment!Remove
  <2>3. \A k \in Deployment!Requests, q \in Proc \ {p} :
          /\ Deployment!Deploys(k, q) => Deployment!Deploys(k, q)'
          /\ Deployment!Undeploys(k, q) => Deployment!Undeploys(k, q)'
    BY <1>1, <1>4, <2>1 DEF Deployment!Ready, Deployment!Fails, Deployment!Remove,
       Deployment!Deploys, Deployment!Undeploys
  <2> QED
    BY <2>2, <2>3
<1>5. ASSUME NEW p \in Proc, Deployment!UndeployFailed(p) PROVE Deployment!RecordsFollowWork'
  BY <1>1, <1>5 DEF Deployment!UndeployFailed, Deployment!Deploys, Deployment!Undeploys
<1>6. CASE Deployment!Restart
  BY <1>6 DEF Deployment!Restart, Deployment!Busy
<1> QED
  BY <1>2, <1>3, <1>4, <1>5, <1>6, WorkerGoesOn DEF Deployment!Next

\* What is ready keeps its image.
LEMMA ReadyKept ==
    ASSUME Deployment!DeploymentTypes, Deployment!PushedBeforeReady,
           Deployment!ReadyRunnable, Deployment!Next
    PROVE  Deployment!PushedBeforeReady' /\ Deployment!ReadyRunnable'
<1> USE ServicesAssumption
        DEF Deployment!DeploymentTypes, Deployment!TypeOK, Deployment!RequestsKnown,
            Deployment!OnlyAwsMoves, Deployment!PushedBeforeReady, Deployment!ReadyRunnable,
            Deployment!States, Deployment!Busy, Deployment!Deploying, Deployment!Undeploying,
            Deployment!Requests
<1>1. ASSUME NEW i \in Deployment!Requests, NEW p \in Proc, Deployment!Check(i, p)
      PROVE  Deployment!PushedBeforeReady' /\ Deployment!ReadyRunnable'
  BY <1>1 DEF Deployment!Check, Deployment!New, Deployment!Readable
<1>2. ASSUME NEW i \in Deployment!Requests, NEW p \in Proc, Deployment!Undeploy(i, p)
      PROVE  Deployment!PushedBeforeReady' /\ Deployment!ReadyRunnable'
  BY <1>2 DEF Deployment!Undeploy, Deployment!New
<1>3. ASSUME NEW i \in Deployment!Requests, Deployment!Place(i)
      PROVE  Deployment!PushedBeforeReady' /\ Deployment!ReadyRunnable'
  BY <1>3 DEF Deployment!Place, Deployment!Write, Deployment!Goto
<1>4. ASSUME NEW i \in Deployment!Requests, Deployment!StartWorker(i)
      PROVE  Deployment!PushedBeforeReady' /\ Deployment!ReadyRunnable'
  BY <1>4 DEF Deployment!StartWorker, Deployment!Goto
<1>5. ASSUME NEW i \in Deployment!Requests, Deployment!Lookup(i)
      PROVE  Deployment!PushedBeforeReady' /\ Deployment!ReadyRunnable'
  BY <1>5 DEF Deployment!Lookup, Deployment!Goto
<1>6. ASSUME NEW i \in Deployment!Requests, Deployment!FindImage(i)
      PROVE  Deployment!PushedBeforeReady' /\ Deployment!ReadyRunnable'
  BY <1>6 DEF Deployment!FindImage, Deployment!Goto, Deployment!Found, Deployment!InDocker
<1>7. ASSUME NEW i \in Deployment!Requests, Deployment!Load(i)
      PROVE  Deployment!PushedBeforeReady' /\ Deployment!ReadyRunnable'
  BY <1>7 DEF Deployment!Load, Deployment!DockerLoad, Deployment!Goto, Deployment!Found
<1>8. ASSUME NEW i \in Deployment!Requests, Deployment!Platform(i)
      PROVE  Deployment!PushedBeforeReady' /\ Deployment!ReadyRunnable'
  <2>1. PICK pc \in {"push", "rebuild"} : v4' = [v4 EXCEPT ![i].pc = pc]
    BY <1>8 DEF Deployment!Platform, Deployment!Usable, Deployment!Goto
  <2>2. v1 # "docker" /\ UNCHANGED <<v1, v2, v6, v9>>
    BY <1>8 DEF Deployment!Platform
  <2> QED
    BY <2>1, <2>2
<1>18. ASSUME NEW i \in Deployment!Requests, Deployment!DeleteForeign(i)
      PROVE  Deployment!PushedBeforeReady' /\ Deployment!ReadyRunnable'
  BY <1>18 DEF Deployment!DeleteForeign, Deployment!DockerDelete, Deployment!Goto
<1>9. ASSUME NEW i \in Deployment!Requests, Deployment!Build(i)
      PROVE  Deployment!PushedBeforeReady' /\ Deployment!ReadyRunnable'
  BY <1>9 DEF Deployment!Build, Deployment!Goto
<1>10. ASSUME NEW i \in Deployment!Requests, Deployment!Push(i)
      PROVE  Deployment!PushedBeforeReady' /\ Deployment!ReadyRunnable'
  BY <1>10 DEF Deployment!Push, Deployment!Goto
<1>11. ASSUME NEW i \in Deployment!Requests, Deployment!Ready(i)
      PROVE  Deployment!PushedBeforeReady' /\ Deployment!ReadyRunnable'
  BY <1>11 DEF Deployment!Ready, Deployment!Write, Deployment!InDocker, Deployment!Goto
<1>12. ASSUME NEW i \in Deployment!Requests, Deployment!Fails(i)
      PROVE  Deployment!PushedBeforeReady' /\ Deployment!ReadyRunnable'
  BY <1>12 DEF Deployment!Fails, Deployment!Failed, Deployment!Write, Deployment!Goto
<1>13. ASSUME NEW i \in Deployment!Requests, Deployment!Deregister(i)
      PROVE  Deployment!PushedBeforeReady' /\ Deployment!ReadyRunnable'
  BY <1>13 DEF Deployment!Deregister, Deployment!Goto
<1>14. ASSUME NEW i \in Deployment!Requests, Deployment!DeleteImage(i)
      PROVE  Deployment!PushedBeforeReady' /\ Deployment!ReadyRunnable'
  BY <1>14 DEF Deployment!DeleteImage, Deployment!Goto
<1>15. ASSUME NEW i \in Deployment!Requests, Deployment!Remove(i)
      PROVE  Deployment!PushedBeforeReady' /\ Deployment!ReadyRunnable'
  BY <1>15 DEF Deployment!Remove, Deployment!Goto
<1>16. ASSUME NEW p \in Proc, Deployment!UndeployFailed(p)
       PROVE  Deployment!PushedBeforeReady' /\ Deployment!ReadyRunnable'
  BY <1>16 DEF Deployment!UndeployFailed
<1>17. CASE Deployment!Restart
  BY <1>17 DEF Deployment!Restart, Deployment!NoWork
<1> QED
  BY <1>1, <1>2, <1>3, <1>4, <1>5, <1>6, <1>7, <1>8, <1>9, <1>10, <1>11, <1>12, <1>13, <1>14,
     <1>15, <1>16, <1>17, <1>18 DEF Deployment!Next

\* At the start nothing is deployed, and no request is under way.
LEMMA DeploymentStart == Deployment!Init => Deployment!DeploymentInv
BY DEF Deployment!Init, Deployment!DeploymentInv, Deployment!DeploymentTypes, Deployment!TypeOK,
       Deployment!RequestsKnown, Deployment!OnlyAwsMoves, Deployment!PushedBeforeReady,
       Deployment!RecordsFollowWork, Deployment!ReadyRunnable, Deployment!States,
       Deployment!Busy, Deployment!NoWork

LEMMA DeploymentGoesOn ==
    Deployment!DeploymentInv /\ [Deployment!Next]_(Deployment!vars) => Deployment!DeploymentInv'
<1> SUFFICES ASSUME Deployment!DeploymentInv, [Deployment!Next]_(Deployment!vars)
             PROVE  Deployment!DeploymentInv'
  OBVIOUS
<1>1. CASE Deployment!Next
  BY <1>1, DeploymentTyped, RecordsKept, ReadyKept DEF Deployment!DeploymentInv
<1>2. CASE UNCHANGED Deployment!vars
  BY <1>2 DEF Deployment!vars, Deployment!DeploymentInv, Deployment!DeploymentTypes,
              Deployment!TypeOK, Deployment!RequestsKnown, Deployment!OnlyAwsMoves,
              Deployment!PushedBeforeReady, Deployment!RecordsFollowWork,
              Deployment!ReadyRunnable, Deployment!Deploys, Deployment!Undeploys
<1> QED
  BY <1>1, <1>2

\* A record in a busy state is being worked on by a request of the right kind, up to a
\* restart of the node.
THEOREM RecordsCorrect == Spec => []RecordsFollowWork
<1> DEFINE Inv == part = "deployment" => Deployment!DeploymentInv
<1>1. Init => Inv
  BY DeploymentStart DEF Init
<1>2. Inv /\ [Next]_vars => Inv'
  BY OnePart, DeploymentGoesOn
<1>3. Inv => RecordsFollowWork
  BY DEF RecordsFollowWork, Deployment!DeploymentInv
<1> QED
  BY <1>1, <1>2, <1>3, PTL DEF Spec

\* A processor that is ready has its image where its jobs are started from.
THEOREM ReadyCorrect == Spec => []ReadyRunnable
<1> DEFINE Inv == part = "deployment" => Deployment!DeploymentInv
<1>1. Init => Inv
  BY DeploymentStart DEF Init
<1>2. Inv /\ [Next]_vars => Inv'
  BY OnePart, DeploymentGoesOn
<1>3. Inv => ReadyRunnable
  BY DEF ReadyRunnable, Deployment!DeploymentInv
<1> QED
  BY <1>1, <1>2, <1>3, PTL DEF Spec

-----------------------------------------------------------------------------
(* Jobs of the AWS RTI *)

\* Types.
LEMMA AwsTyped ==
    ASSUME Aws!AwsTypes, Aws!Next
    PROVE  Aws!AwsTypes'
<1> USE ServicesAssumption DEF Aws!AwsTypes, Aws!TypeOK, Aws!Terminal, Aws!Statuses, Aws!SubPcs
<1>1. CASE Aws!Begin
  BY <1>1 DEF Aws!Begin
<1>2. ASSUME NEW j \in Job, Aws!Submit(j) PROVE Aws!AwsTypes'
  BY <1>2 DEF Aws!Submit, Aws!EnsureJobDef
<1>3. CASE Aws!Record
  BY <1>3 DEF Aws!Record
<1>4. CASE Aws!SubmitFails
  BY <1>4 DEF Aws!SubmitFails
<1>5. ASSUME NEW j \in Job, Aws!PurgeMember(j) PROVE Aws!AwsTypes'
  BY <1>5 DEF Aws!PurgeMember, Aws!Purged, Aws!Terminated
<1>6. CASE Aws!CommitFailed
  BY <1>6 DEF Aws!CommitFailed
<1>7. ASSUME NEW j \in Job, Aws!Schedule(j) PROVE Aws!AwsTypes'
  BY <1>7 DEF Aws!Schedule
<1>8. ASSUME NEW j \in Job, Aws!Exit(j) PROVE Aws!AwsTypes'
  BY <1>8 DEF Aws!Exit
<1>9. ASSUME NEW j \in Job, Aws!HandshakeCheck(j) PROVE Aws!AwsTypes'
  BY <1>9 DEF Aws!HandshakeCheck, Aws!MayStart
<1>10. ASSUME NEW j \in Job, Aws!HandshakeCommit(j) PROVE Aws!AwsTypes'
  BY <1>10 DEF Aws!HandshakeCommit
<1>11. ASSUME NEW j \in Job, Aws!Finish(j) PROVE Aws!AwsTypes'
  BY <1>11 DEF Aws!Finish
<1>12. ASSUME NEW j \in Job, Aws!Cancel(j) PROVE Aws!AwsTypes'
  BY <1>12 DEF Aws!Cancel
<1>13. ASSUME NEW j \in Job, Aws!Mark(j) PROVE Aws!AwsTypes'
  BY <1>13 DEF Aws!Mark
<1>14. ASSUME NEW j \in Job, Aws!ReadRunner(j) PROVE Aws!AwsTypes'
  <2>1. CASE j \in v3
    <3>1. (j \in v6) \in BOOLEAN
      OBVIOUS
    <3>2. PICK iid \in BOOLEAN : iid = (j \in v6)
      BY <3>1
    <3>3. v7' = [v7 EXCEPT ![j] = [pc |-> "wait", iid |-> iid]]
      BY <1>14, <2>1, <3>2 DEF Aws!ReadRunner
    <3> QED
      BY <1>14, <3>3 DEF Aws!ReadRunner
  <2>2. CASE j \notin v3
    BY <1>14, <2>2 DEF Aws!ReadRunner, Aws!NoCancel
  <2> QED
    BY <2>1, <2>2
<1>15. ASSUME NEW j \in Job, Aws!Decide(j) PROVE Aws!AwsTypes'
  BY <1>15 DEF Aws!Decide, Aws!RunningStatuses, Aws!Terminated
<1>16. ASSUME NEW j \in Job, Aws!Delete(j) PROVE Aws!AwsTypes'
  BY <1>16 DEF Aws!Delete
<1>17. ASSUME NEW j \in Job, Aws!CancelFails(j) PROVE Aws!AwsTypes'
  BY <1>17 DEF Aws!CancelFails
<1>18. CASE Aws!Undeploy
  BY <1>18 DEF Aws!Undeploy
<1>19. CASE Aws!Deploy
  BY <1>19 DEF Aws!Deploy
<1> QED
  BY <1>1, <1>2, <1>3, <1>4, <1>5, <1>6, <1>7, <1>8, <1>9, <1>10, <1>11, <1>12, <1>13, <1>14,
     <1>15, <1>16, <1>17, <1>18, <1>19 DEF Aws!Next

\* Jobs are submitted, started and purged in this order.
LEMMA AwsOrder ==
    ASSUME Aws!AwsTypes, Aws!ShakesWhenStarted, Aws!NotSubmittedYet, Aws!PurgedGone, Aws!Next
    PROVE  Aws!ShakesWhenStarted' /\ Aws!NotSubmittedYet' /\ Aws!PurgedGone'
<1> USE ServicesAssumption DEF Aws!AwsTypes, Aws!TypeOK, Aws!Terminal, Aws!Statuses, Aws!SubPcs,
        Aws!ShakesWhenStarted, Aws!NotSubmittedYet, Aws!PurgedGone
<1>1. CASE Aws!Begin
  BY <1>1 DEF Aws!Begin
<1>2. ASSUME NEW j \in Job, Aws!Submit(j)
      PROVE  Aws!ShakesWhenStarted' /\ Aws!NotSubmittedYet' /\ Aws!PurgedGone'
  BY <1>2 DEF Aws!Submit, Aws!EnsureJobDef
<1>3. CASE Aws!Record
  BY <1>3 DEF Aws!Record
<1>4. CASE Aws!SubmitFails
  BY <1>4 DEF Aws!SubmitFails
<1>5. ASSUME NEW j \in Job, Aws!PurgeMember(j)
      PROVE  Aws!ShakesWhenStarted' /\ Aws!NotSubmittedYet' /\ Aws!PurgedGone'
  BY <1>5 DEF Aws!PurgeMember, Aws!Purged, Aws!Terminated
<1>6. CASE Aws!CommitFailed
  BY <1>6 DEF Aws!CommitFailed
<1>7. ASSUME NEW j \in Job, Aws!Schedule(j)
      PROVE  Aws!ShakesWhenStarted' /\ Aws!NotSubmittedYet' /\ Aws!PurgedGone'
  BY <1>7 DEF Aws!Schedule
<1>8. ASSUME NEW j \in Job, Aws!Exit(j)
      PROVE  Aws!ShakesWhenStarted' /\ Aws!NotSubmittedYet' /\ Aws!PurgedGone'
  BY <1>8 DEF Aws!Exit
<1>9. ASSUME NEW j \in Job, Aws!HandshakeCheck(j)
      PROVE  Aws!ShakesWhenStarted' /\ Aws!NotSubmittedYet' /\ Aws!PurgedGone'
  BY <1>9 DEF Aws!HandshakeCheck, Aws!MayStart
<1>10. ASSUME NEW j \in Job, Aws!HandshakeCommit(j)
       PROVE  Aws!ShakesWhenStarted' /\ Aws!NotSubmittedYet' /\ Aws!PurgedGone'
  BY <1>10 DEF Aws!HandshakeCommit
<1>11. ASSUME NEW j \in Job, Aws!Finish(j)
       PROVE  Aws!ShakesWhenStarted' /\ Aws!NotSubmittedYet' /\ Aws!PurgedGone'
  BY <1>11 DEF Aws!Finish
<1>12. ASSUME NEW j \in Job, Aws!Cancel(j)
       PROVE  Aws!ShakesWhenStarted' /\ Aws!NotSubmittedYet' /\ Aws!PurgedGone'
  BY <1>12 DEF Aws!Cancel
<1>13. ASSUME NEW j \in Job, Aws!Mark(j)
       PROVE  Aws!ShakesWhenStarted' /\ Aws!NotSubmittedYet' /\ Aws!PurgedGone'
  BY <1>13 DEF Aws!Mark
<1>14. ASSUME NEW j \in Job, Aws!ReadRunner(j)
       PROVE  Aws!ShakesWhenStarted' /\ Aws!NotSubmittedYet' /\ Aws!PurgedGone'
  BY <1>14 DEF Aws!ReadRunner, Aws!NoCancel
<1>15. ASSUME NEW j \in Job, Aws!Decide(j)
       PROVE  Aws!ShakesWhenStarted' /\ Aws!NotSubmittedYet' /\ Aws!PurgedGone'
  BY <1>15 DEF Aws!Decide, Aws!RunningStatuses, Aws!Terminated
<1>16. ASSUME NEW j \in Job, Aws!Delete(j)
       PROVE  Aws!ShakesWhenStarted' /\ Aws!NotSubmittedYet' /\ Aws!PurgedGone'
  BY <1>16 DEF Aws!Delete
<1>17. ASSUME NEW j \in Job, Aws!CancelFails(j)
       PROVE  Aws!ShakesWhenStarted' /\ Aws!NotSubmittedYet' /\ Aws!PurgedGone'
  BY <1>17 DEF Aws!CancelFails
<1>18. CASE Aws!Undeploy
  BY <1>18 DEF Aws!Undeploy
<1>19. CASE Aws!Deploy
  BY <1>19 DEF Aws!Deploy
<1> QED
  BY <1>1, <1>2, <1>3, <1>4, <1>5, <1>6, <1>7, <1>8, <1>9, <1>10, <1>11, <1>12, <1>13, <1>14,
     <1>15, <1>16, <1>17, <1>18, <1>19 DEF Aws!Next

\* What is over does not work.
LEMMA AwsOver ==
    ASSUME Aws!AwsInv, Aws!Next
    PROVE  Aws!OverNotWorking'
<1> USE ServicesAssumption DEF Aws!AwsInv, Aws!AwsTypes, Aws!TypeOK, Aws!Terminal, Aws!Statuses,
        Aws!SubPcs, Aws!ShakesWhenStarted, Aws!NotSubmittedYet, Aws!PurgedGone,
        Aws!OverNotWorking, Aws!Over
<1>1. CASE Aws!Begin
  BY <1>1 DEF Aws!Begin
<1>2. ASSUME NEW j \in Job, Aws!Submit(j) PROVE Aws!OverNotWorking'
  BY <1>2 DEF Aws!Submit, Aws!EnsureJobDef
<1>3. CASE Aws!Record
  BY <1>3 DEF Aws!Record
<1>4. CASE Aws!SubmitFails
  BY <1>4 DEF Aws!SubmitFails
<1>5. ASSUME NEW j \in Job, Aws!PurgeMember(j) PROVE Aws!OverNotWorking'
  BY <1>5 DEF Aws!PurgeMember, Aws!Purged, Aws!Terminated
<1>6. CASE Aws!CommitFailed
  BY <1>6 DEF Aws!CommitFailed
<1>7. ASSUME NEW j \in Job, Aws!Schedule(j) PROVE Aws!OverNotWorking'
  BY <1>7 DEF Aws!Schedule
<1>8. ASSUME NEW j \in Job, Aws!Exit(j) PROVE Aws!OverNotWorking'
  BY <1>8 DEF Aws!Exit
<1>9. ASSUME NEW j \in Job, Aws!HandshakeCheck(j) PROVE Aws!OverNotWorking'
  BY <1>9 DEF Aws!HandshakeCheck, Aws!MayStart
<1>10. ASSUME NEW j \in Job, Aws!HandshakeCommit(j) PROVE Aws!OverNotWorking'
  BY <1>10 DEF Aws!HandshakeCommit
<1>11. ASSUME NEW j \in Job, Aws!Finish(j) PROVE Aws!OverNotWorking'
  BY <1>11 DEF Aws!Finish
<1>12. ASSUME NEW j \in Job, Aws!Cancel(j) PROVE Aws!OverNotWorking'
  BY <1>12 DEF Aws!Cancel
<1>13. ASSUME NEW j \in Job, Aws!Mark(j) PROVE Aws!OverNotWorking'
  BY <1>13 DEF Aws!Mark
<1>14. ASSUME NEW j \in Job, Aws!ReadRunner(j) PROVE Aws!OverNotWorking'
  BY <1>14 DEF Aws!ReadRunner, Aws!NoCancel
<1>15. ASSUME NEW j \in Job, Aws!Decide(j) PROVE Aws!OverNotWorking'
  BY <1>15 DEF Aws!Decide, Aws!RunningStatuses, Aws!Terminated
<1>16. ASSUME NEW j \in Job, Aws!Delete(j) PROVE Aws!OverNotWorking'
  BY <1>16 DEF Aws!Delete
<1>17. ASSUME NEW j \in Job, Aws!CancelFails(j) PROVE Aws!OverNotWorking'
  BY <1>17 DEF Aws!CancelFails
<1>18. CASE Aws!Undeploy
  BY <1>18 DEF Aws!Undeploy
<1>19. CASE Aws!Deploy
  BY <1>19 DEF Aws!Deploy
<1> QED
  BY <1>1, <1>2, <1>3, <1>4, <1>5, <1>6, <1>7, <1>8, <1>9, <1>10, <1>11, <1>12, <1>13, <1>14,
     <1>15, <1>16, <1>17, <1>18, <1>19 DEF Aws!Next

\* At the start AWS Batch has no job.
LEMMA AwsStart == Aws!Init => Aws!AwsInv
BY ServicesAssumption
   DEF Aws!Init, Aws!AwsInv, Aws!AwsTypes, Aws!TypeOK, Aws!SubPcs, Aws!ShakesWhenStarted,
       Aws!NotSubmittedYet, Aws!PurgedGone, Aws!OverNotWorking, Aws!Over, Aws!Statuses,
       Aws!Terminal, Aws!NoCancel

LEMMA AwsGoesOn == Aws!AwsInv /\ [Aws!Next]_(Aws!vars) => Aws!AwsInv'
<1> SUFFICES ASSUME Aws!AwsInv, [Aws!Next]_(Aws!vars) PROVE Aws!AwsInv'
  OBVIOUS
<1>1. CASE Aws!Next
  BY <1>1, AwsTyped, AwsOrder, AwsOver DEF Aws!AwsInv
<1>2. CASE UNCHANGED Aws!vars
  BY <1>2 DEF Aws!vars, Aws!AwsInv, Aws!AwsTypes, Aws!TypeOK, Aws!SubPcs,
              Aws!ShakesWhenStarted, Aws!NotSubmittedYet, Aws!PurgedGone,
              Aws!OverNotWorking, Aws!Over
<1> QED
  BY <1>1, <1>2

\* No runner works for a job that was cancelled or refused, unless somebody is about to
\* terminate it.
THEOREM AwsCorrect == Spec => []EndedNotWorking
<1> DEFINE Inv == part = "aws" => Aws!AwsInv
<1>1. Init => Inv
  BY AwsStart DEF Init
<1>2. Inv /\ [Next]_vars => Inv'
  BY OnePart, AwsGoesOn
<1>3. Inv => EndedNotWorking
  BY DEF EndedNotWorking, Aws!EndedNotWorking, Aws!AwsInv, Aws!OverNotWorking, Aws!Over
<1> QED
  BY <1>1, <1>2, <1>3, PTL DEF Spec

-----------------------------------------------------------------------------
(* The gateway.  v1 is account, v2 keys, v3 issued, v5 command, v7 request,   *)
(* v8 done and v9 chance.                                                     *)

\* A set of numbers with a bound has a largest one.
LEMMA Largest ==
    ASSUME NEW n \in Nat, NEW S, S \subseteq 1..n, S # {}
    PROVE  Gate!Max(S) \in S
<1> DEFINE W == {x..n : x \in S}
<1>1. IsWellFoundedOn(StrictSubsetOrdering(1..n), FiniteSubsetsOf(1..n))
  BY FS_StrictSubsetOrderingWellFounded
<1>0. \A x \in 1..n : x..n \in FiniteSubsetsOf(1..n)
  BY FS_Interval DEF FiniteSubsetsOf
<1>2. W \subseteq FiniteSubsetsOf(1..n) /\ W # {}
  BY <1>0
<1>3. PICK w \in W : \A u \in W : ~ (<<u, w>> \in StrictSubsetOrdering(1..n))
  <2> HIDE DEF W
  <2> QED
    BY <1>1, <1>2, WFMin
<1>4. PICK x \in S : w = x..n
  OBVIOUS
<1>5. ASSUME NEW y \in S, y > x PROVE FALSE
  <2>1. y..n \in W /\ x \in x..n /\ x \notin y..n /\ y..n \subseteq x..n /\ x..n \subseteq 1..n
    BY <1>5
  <2>2. <<y..n, w>> \in StrictSubsetOrdering(1..n)
    BY <1>4, <2>1 DEF StrictSubsetOrdering
  <2> QED
    BY <1>3, <2>1, <2>2
<1>6. \E x2 \in S : \A y \in S : x2 >= y
  BY <1>5
<1> QED
  BY <1>6 DEF Gate!Max

\* Whatever a command does, the keys of before keep their users, and a request under way
\* whose user is enabled was given its chance.
LEMMA CommandKeeps ==
    ASSUME Gate!GatewayInv, NEW s \in Admin,
           \/ Gate!Select(s) \/ Gate!SelectKey(s) \/ Gate!Publish(s) \/ Gate!PublishAll(s)
           \/ Gate!SetStatus(s, "enable", "enabled") \/ Gate!SetStatus(s, "disable", "disabled")
           \/ Gate!DeleteUser(s) \/ Gate!AddKey(s) \/ Gate!RemoveKey(s)
           \/ \E u \in User : Gate!CreateUser(s, u)
    PROVE  /\ Gate!GatewayTypes' /\ Gate!Created'
           /\ UNCHANGED <<v7, v8>> /\ v9 \subseteq v9'
           /\ Len(v3) <= Len(v3') /\ \A k \in 1..Len(v3) : v3'[k] = v3[k]
           /\ \A q \in Call : v7[q].pc \notin {"new", "told"} /\ v7[q].key > 0
                                /\ v1'[v3[v7[q].key]] = "enabled" => q \in v9'
<1>1. /\ v1 \in [User -> {"none", "enabled", "disabled", "deleted"}]
      /\ v3 \in Seq(User) /\ v4 \subseteq User /\ v5 \in [Admin -> Gate!Commands]
      /\ v7 \in [Call -> Gate!Requests] /\ Len(v3) \in Nat /\ Len(v3) <= MaxKeys
      /\ DOMAIN v2 \subseteq 1..Len(v3) /\ \A i \in DOMAIN v2 : v2[i] \in 1..Len(v3)
  BY DEF Gate!GatewayInv, Gate!GatewayTypes, Gate!TypeOK
<1>2. /\ MaxKeys \in Nat
      /\ \A a \in Admin : v5[a].op \notin {"none", "remove_key"} =>
                            v5[a].user \in User /\ v1[v5[a].user] # "none"
      /\ \A k \in 1..Len(v3) : v3[k] \in User /\ v1[v3[k]] # "none"
  BY <1>1, ServicesAssumption DEF Gate!GatewayInv, Gate!Created
<1>0. ASSUME NEW q \in Call
      PROVE  /\ v7[q].key \in Nat /\ v7[q].key <= Len(v3)
             /\ v7[q].pc \notin {"new", "told"} /\ v7[q].key > 0
                  /\ v1[v3[v7[q].key]] = "enabled" => q \in v9
  <2>1. Gate!Passed(q) /\ v7[q].key <= Len(v3)
    BY DEF Gate!GatewayInv, Gate!GatewayTypes
  <2>2. v7[q].key \in Nat
    BY <1>1, <1>2 DEF Gate!Requests, Gate!Keys
  <2> QED
    BY <2>1, <2>2 DEF Gate!Passed
<1> USE DEF Gate!Ops, Gate!Commands
<1> DEFINE Ended == [v5 EXCEPT ![s] = [op |-> "none", user |-> NoUser, row |-> 0]]
           Commanded == \A a \in Admin : v5'[a].op \notin {"none", "remove_key"} =>
                                            v5'[a].user \in User /\ v1'[v5'[a].user] # "none"
           Given == \A q \in Call : v7[q].pc \notin {"new", "told"} /\ v7[q].key > 0
                                       /\ v1'[v3[v7[q].key]] = "enabled" => q \in v9'
<1>20. ASSUME v1' \in [User -> {"none", "enabled", "disabled", "deleted"}],
              v3' \in Seq(User), Len(v3) <= Len(v3'), Len(v3') <= MaxKeys,
              DOMAIN v2' \subseteq 1..Len(v3'), \A i \in DOMAIN v2' : v2'[i] \in 1..Len(v3'),
              v4' \subseteq User, v5' \in [Admin -> Gate!Commands], UNCHANGED v7
       PROVE  Gate!GatewayTypes'
  <2>1. Len(v3') \in Nat /\ DOMAIN v2' \subseteq Gate!Rows
    BY <1>1, <1>2, <1>20 DEF Gate!Rows
  <2>2. \A r \in Call : v7'[r].key <= Len(v3')
    BY <1>0, <1>1, <1>20, <2>1
  <2>3. v7' \in [Call -> Gate!Requests]
    BY <1>1, <1>20
  <2> QED
    BY <1>20, <2>1, <2>2, <2>3 DEF Gate!GatewayTypes, Gate!TypeOK
<1>21. ASSUME \A u \in User : v1[u] # "none" => v1'[u] # "none",
              \A k \in 1..Len(v3') : v3'[k] \in User /\ v1[v3'[k]] # "none", Commanded
       PROVE  Gate!Created'
  BY <1>21 DEF Gate!Created
<1>22. ASSUME \A u \in User : v1[u] # "none" /\ v1'[u] = "enabled" => v1[u] = "enabled",
              v9 \subseteq v9'
       PROVE  Given
  <2> SUFFICES ASSUME NEW q \in Call, v7[q].pc \notin {"new", "told"}, v7[q].key > 0,
                      v1'[v3[v7[q].key]] = "enabled"
               PROVE  q \in v9'
    OBVIOUS
  <2>1. v3[v7[q].key] \in User /\ v1[v3[v7[q].key]] # "none"
    BY <1>0, <1>1, <1>2
  <2> QED
    BY <1>0, <1>22, <2>1
<1>5. ASSUME v5' = Ended, \A u \in User : v1[u] # "none" => v1'[u] # "none"
      PROVE  v5' \in [Admin -> Gate!Commands] /\ Commanded
  <2>1. v5'[s] = [op |-> "none", user |-> NoUser, row |-> 0] /\ \A a \in Admin \ {s} : v5'[a] = v5[a]
    BY <1>1, <1>5
  <2>2. v5' \in [Admin -> Gate!Commands]
    BY <1>1, <1>2, <1>5
  <2> QED
    BY <1>2, <1>5, <2>1, <2>2
<1>3. CASE Gate!Select(s)
  <2>1. PICK op \in {"enable", "disable", "delete", "add_key"}, u \in User :
          v1[u] # "none" /\ v5' = [v5 EXCEPT ![s] = [op |-> op, user |-> u, row |-> 0]]
    BY <1>3 DEF Gate!Select, Gate!Selected, Gate!Exists
  <2>2. UNCHANGED <<v1, v2, v3, v4, v7, v8, v9>>
    BY <1>3 DEF Gate!Select
  <2>3. v5' \in [Admin -> Gate!Commands]
    BY <1>1, <1>2, <2>1
  <2>4. Commanded
    BY <1>1, <1>2, <2>1, <2>2
  <2> QED
    BY <1>1, <1>2, <1>20, <1>21, <1>22, <2>2, <2>3, <2>4
<1>4. CASE Gate!SelectKey(s)
  <2>1. PICK i \in DOMAIN v2 : v5' = [v5 EXCEPT ![s] = [op |-> "remove_key", user |-> NoUser, row |-> i]]
    BY <1>4 DEF Gate!SelectKey, Gate!Selected
  <2>2. i \in 0..MaxKeys
    BY <1>1, <1>2
  <2>3. UNCHANGED <<v1, v2, v3, v4, v7, v8, v9>>
    BY <1>4 DEF Gate!SelectKey
  <2>4. v5' \in [Admin -> Gate!Commands]
    BY <1>1, <1>2, <2>1, <2>2
  <2>5. Commanded
    BY <1>1, <1>2, <2>1, <2>3
  <2> QED
    BY <1>1, <1>2, <1>20, <1>21, <1>22, <2>3, <2>4, <2>5
<1>6. CASE Gate!Publish(s)
  <2>1. UNCHANGED <<v1, v2, v3, v7, v8, v9>> /\ v4' \subseteq User
    BY <1>1, <1>2, <1>6 DEF Gate!Publish
  <2>2. v5' \in [Admin -> Gate!Commands] /\ Commanded
    BY <1>5, <1>6, <2>1 DEF Gate!Publish, Gate!Ended, Gate!NoCommand
  <2> QED
    BY <1>1, <1>2, <1>20, <1>21, <1>22, <2>1, <2>2
<1>7. CASE Gate!PublishAll(s)
  <2>1. UNCHANGED <<v1, v2, v3, v5, v7, v8, v9>> /\ v4' \subseteq User
    BY <1>1, <1>7 DEF Gate!PublishAll
  <2> QED
    BY <1>1, <1>2, <1>20, <1>21, <1>22, <2>1
<1>8. ASSUME NEW op \in {"enable", "disable"}, NEW status \in {"enabled", "disabled"},
             Gate!SetStatus(s, op, status)
      PROVE  /\ Gate!GatewayTypes' /\ Gate!Created'
             /\ UNCHANGED <<v3, v7, v8>> /\ v9 \subseteq v9' /\ Given
  <2>1. v5[s].user \in User
    BY <1>2, <1>8 DEF Gate!SetStatus
  <2>2. /\ UNCHANGED <<v2, v3, v4, v7, v8>>
        /\ v1' = [v1 EXCEPT ![v5[s].user] = IF Gate!Exists(v5[s].user) THEN status ELSE @]
    BY <1>8 DEF Gate!SetStatus
  <2>3. /\ v1' \in [User -> {"none", "enabled", "disabled", "deleted"}]
        /\ \A u \in User : v1[u] # "none" => v1'[u] # "none"
        /\ \A u \in User \ {v5[s].user} : v1'[u] = v1[u]
    BY <1>1, <2>1, <2>2
  <2>4. v9' = IF v1'[v5[s].user] = "enabled" THEN v9 \cup Gate!OpenFor(v5[s].user) ELSE v9
    BY <1>8 DEF Gate!SetStatus
  <2>5. v9 \subseteq v9'
    BY <2>4
  <2>6. ASSUME NEW q \in Call, v7[q].pc \notin {"new", "told"}, v7[q].key > 0,
               v1'[v3[v7[q].key]] = "enabled"
        PROVE  q \in v9'
    <3>1. v3[v7[q].key] \in User
      BY <1>0, <1>1, <1>2, <2>6
    <3>2. CASE v3[v7[q].key] = v5[s].user
      BY <2>4, <2>6, <3>2 DEF Gate!OpenFor
    <3>3. CASE v3[v7[q].key] # v5[s].user
      BY <1>0, <2>3, <2>5, <2>6, <3>1, <3>3
    <3> QED
      BY <3>2, <3>3
  <2>7. v5' \in [Admin -> Gate!Commands] /\ Commanded
    BY <1>5, <1>8, <2>3 DEF Gate!SetStatus, Gate!Ended, Gate!NoCommand
  <2>8. Gate!GatewayTypes'
    BY <1>1, <1>20, <2>2, <2>3, <2>7
  <2>9. Gate!Created'
    BY <1>2, <1>21, <2>2, <2>3, <2>7
  <2> QED
    BY <2>2, <2>5, <2>6, <2>8, <2>9
<1>9. CASE Gate!SetStatus(s, "enable", "enabled") \/ Gate!SetStatus(s, "disable", "disabled")
  <2>1. /\ Gate!GatewayTypes' /\ Gate!Created'
        /\ UNCHANGED <<v3, v7, v8>> /\ v9 \subseteq v9' /\ Given
    BY <1>8, <1>9
  <2> QED
    BY <1>1, <2>1
<1>10. CASE Gate!DeleteUser(s)
  <2>1. v5[s].user \in User /\ v1' = [v1 EXCEPT ![v5[s].user] = "deleted"]
    BY <1>2, <1>10 DEF Gate!DeleteUser
  <2>2. /\ v1' \in [User -> {"none", "enabled", "disabled", "deleted"}]
        /\ \A u \in User : (v1[u] # "none" => v1'[u] # "none") /\ (v1'[u] = "enabled" => v1[u] = "enabled")
    BY <1>1, <2>1
  <2>3. UNCHANGED <<v2, v3, v4, v7, v8, v9>>
    BY <1>10 DEF Gate!DeleteUser
  <2>4. v5' \in [Admin -> Gate!Commands] /\ Commanded
    BY <1>5, <1>10, <2>2 DEF Gate!DeleteUser, Gate!Ended, Gate!NoCommand
  <2>5. Gate!GatewayTypes'
    BY <1>1, <1>20, <2>2, <2>3, <2>4
  <2>6. Gate!Created'
    BY <1>2, <1>21, <2>2, <2>3, <2>4
  <2>7. Given
    BY <1>22, <2>2, <2>3
  <2> QED
    BY <1>1, <2>3, <2>5, <2>6, <2>7
<1>11. CASE Gate!AddKey(s)
  <2>1. /\ v5[s].user \in User /\ v1[v5[s].user] # "none" /\ Len(v3) < MaxKeys
        /\ v3' = Append(v3, v5[s].user) /\ UNCHANGED <<v1, v4, v7, v8, v9>>
        /\ v2' = [i \in (DOMAIN v2) \cup {Gate!NextRow} |->
                    IF i = Gate!NextRow THEN Len(v3) + 1 ELSE v2[i]]
    BY <1>2, <1>11 DEF Gate!AddKey
  <2>2. /\ v3' \in Seq(User) /\ Len(v3') = Len(v3) + 1 /\ v3'[Len(v3')] = v5[s].user
        /\ \A k \in 1..Len(v3) : v3'[k] = v3[k]
    BY <1>1, <2>1
  <2>3. Gate!NextRow \in 1..Len(v3')
    <3>1. CASE DOMAIN v2 = {}
      BY <1>1, <2>2, <3>1 DEF Gate!NextRow
    <3>2. CASE DOMAIN v2 # {}
      <4>1. Gate!Max(DOMAIN v2) \in 1..Len(v3)
        BY <1>1, <3>2, Largest
      <4> QED
        BY <1>1, <2>2, <3>2, <4>1 DEF Gate!NextRow
    <3> QED
      BY <3>1, <3>2
  <2>4. DOMAIN v2' \subseteq 1..Len(v3') /\ \A i \in DOMAIN v2' : v2'[i] \in 1..Len(v3')
    BY <1>1, <2>1, <2>2, <2>3
  <2>5. v5' \in [Admin -> Gate!Commands] /\ Commanded
    BY <1>5, <1>11, <2>1 DEF Gate!AddKey, Gate!Ended, Gate!NoCommand
  <2>6. Len(v3) <= Len(v3') /\ Len(v3') <= MaxKeys
    BY <1>1, <1>2, <2>1, <2>2
  <2>7. Gate!GatewayTypes'
    BY <1>1, <1>20, <2>1, <2>2, <2>4, <2>5, <2>6
  <2>8. \A k \in 1..Len(v3') : v3'[k] \in User /\ v1[v3'[k]] # "none"
    BY <1>1, <1>2, <2>1, <2>2
  <2>9. Gate!Created'
    BY <1>21, <2>1, <2>5, <2>8
  <2>10. Given
    BY <1>22, <2>1
  <2> QED
    BY <2>1, <2>2, <2>6, <2>7, <2>9, <2>10
<1>12. CASE Gate!RemoveKey(s)
  <2>1. UNCHANGED <<v1, v3, v4, v7, v8, v9>> /\ v2' = [i \in (DOMAIN v2) \ {v5[s].row} |-> v2[i]]
    BY <1>12 DEF Gate!RemoveKey
  <2>2. v5' \in [Admin -> Gate!Commands] /\ Commanded
    BY <1>5, <1>12, <2>1 DEF Gate!RemoveKey, Gate!Ended, Gate!NoCommand
  <2>3. Gate!GatewayTypes'
    BY <1>1, <1>20, <2>1, <2>2
  <2> QED
    BY <1>1, <1>2, <1>21, <1>22, <2>1, <2>2, <2>3
<1>13. ASSUME NEW u \in User, Gate!CreateUser(s, u)
       PROVE  Gate!GatewayTypes' /\ Gate!Created' /\ UNCHANGED <<v3, v7, v8, v9>> /\ Given
  <2>1. v1[u] = "none" /\ v1' = [v1 EXCEPT ![u] = "enabled"] /\ UNCHANGED <<v2, v3, v4, v7, v8, v9>>
    BY <1>13 DEF Gate!CreateUser
  <2>2. v5' = [v5 EXCEPT ![s] = [op |-> "publish", user |-> u, row |-> 0]]
    BY <1>13 DEF Gate!CreateUser, Gate!Selected
  <2>3. /\ v1' \in [User -> {"none", "enabled", "disabled", "deleted"}]
        /\ v1'[u] # "none" /\ \A w \in User : v1[w] # "none" => v1'[w] = v1[w]
    BY <1>1, <2>1
  <2>4. v5' \in [Admin -> Gate!Commands] /\ Commanded
    <3>1. v5' \in [Admin -> Gate!Commands]
      BY <1>1, <1>2, <2>2
    <3>2. v5'[s].user = u /\ \A a \in Admin \ {s} : v5'[a] = v5[a]
      BY <1>1, <2>2
    <3> QED
      BY <1>2, <2>3, <3>1, <3>2
  <2>5. Gate!GatewayTypes'
    BY <1>1, <1>20, <2>1, <2>3, <2>4
  <2>6. Gate!Created'
    BY <1>2, <1>21, <2>1, <2>3, <2>4
  <2>7. Given
    BY <1>22, <2>1, <2>3
  <2> QED
    BY <2>1, <2>5, <2>6, <2>7
<1> QED
  BY <1>1, <1>3, <1>4, <1>6, <1>7, <1>9, <1>10, <1>11, <1>12, <1>13

\* What a command keeps is enough for what was found for requests, and for what was done.
LEMMA CommandStep ==
    ASSUME Gate!GatewayInv, NEW s \in Admin,
           \/ Gate!Select(s) \/ Gate!SelectKey(s) \/ Gate!Publish(s) \/ Gate!PublishAll(s)
           \/ Gate!SetStatus(s, "enable", "enabled") \/ Gate!SetStatus(s, "disable", "disabled")
           \/ Gate!DeleteUser(s) \/ Gate!AddKey(s) \/ Gate!RemoveKey(s)
           \/ \E u \in User : Gate!CreateUser(s, u)
    PROVE  Gate!GatewayInv'
<1>1. /\ Gate!GatewayTypes' /\ Gate!Created'
      /\ UNCHANGED <<v7, v8>> /\ v9 \subseteq v9'
      /\ Len(v3) <= Len(v3') /\ \A k \in 1..Len(v3) : v3'[k] = v3[k]
      /\ \A q \in Call : v7[q].pc \notin {"new", "told"} /\ v7[q].key > 0
                           /\ v1'[v3[v7[q].key]] = "enabled" => q \in v9'
  BY CommandKeeps
<1>2. \A q \in Call : v7[q].key \in Nat /\ v7[q].key <= Len(v3) /\ Len(v3) \in Nat
  <2>1. v7 \in [Call -> Gate!Requests] /\ v3 \in Seq(User) /\ \A q \in Call : v7[q].key <= Len(v3)
    BY DEF Gate!GatewayInv, Gate!GatewayTypes, Gate!TypeOK
  <2> QED
    BY <2>1, ServicesAssumption DEF Gate!Requests, Gate!Keys
<1>3. \A q \in Call : v7[q].key > 0 => v3'[v7[q].key] = v3[v7[q].key]
  BY <1>1, <1>2
<1>4. ASSUME NEW q \in Call PROVE Gate!Passed(q)'
  <2>1. Gate!Passed(q)
    BY DEF Gate!GatewayInv
  <2> QED
    BY <1>1, <1>3, <2>1 DEF Gate!Passed, Gate!Holder
<1>5. Gate!Acted'
  BY <1>1, <1>3 DEF Gate!GatewayInv, Gate!Acted
<1> QED
  BY <1>1, <1>4, <1>5 DEF Gate!GatewayInv

\* What a request does is about itself: it goes on with what was found for it, or is told
\* that nothing was.
LEMMA RequestGoesOn ==
    ASSUME Gate!GatewayInv, NEW r \in Call,
           NEW q \in Gate!Requests, v7' = [v7 EXCEPT ![r] = q], q.key <= Len(v3),
           UNCHANGED <<v1, v2, v3, v5>>, v4' \subseteq User,
           v8 \subseteq v8', \A d \in v8' : d \in v8 \/ d[1] = r,
           v9 \subseteq v9', v9' \subseteq v9 \cup {r}, Gate!Passed(r)',
           \A d \in v8' : d[1] = r =>
             /\ r \in v9' /\ q.pc \in {"answer", "told"}
             /\ q.about = d[2] /\ q.key > 0 /\ v3[q.key] = d[2]
    PROVE  Gate!GatewayInv'
<1>1. v7'[r] = q /\ \A p \in Call \ {r} : v7'[p] = v7[p]
  BY DEF Gate!GatewayInv, Gate!GatewayTypes, Gate!TypeOK
<1>2. Gate!GatewayTypes'
  BY <1>1 DEF Gate!GatewayInv, Gate!GatewayTypes, Gate!TypeOK
<1>3. Gate!Created'
  BY DEF Gate!GatewayInv, Gate!Created
<1>4. ASSUME NEW p \in Call \ {r} PROVE Gate!Passed(p)'
  <2>1. Gate!Passed(p)
    BY DEF Gate!GatewayInv
  <2> QED
    BY <1>1, <2>1 DEF Gate!Passed, Gate!Holder
<1>5. Gate!Acted'
  <2> SUFFICES ASSUME NEW d \in v8'
               PROVE  /\ d[1] \in Call \cap v9' /\ v7'[d[1]].pc \in {"answer", "told"}
                      /\ v7'[d[1]].about = d[2] /\ v7'[d[1]].key > 0
                      /\ v3'[v7'[d[1]].key] = d[2]
    BY DEF Gate!Acted
  <2>1. CASE d[1] = r
    BY <1>1, <2>1
  <2>2. CASE d[1] # r
    BY <1>1, <2>2 DEF Gate!GatewayInv, Gate!Acted
  <2> QED
    BY <2>1, <2>2
<1> QED
  BY <1>2, <1>3, <1>4, <1>5 DEF Gate!GatewayInv

\* ... which each of its steps does.
LEMMA RequestStep ==
    ASSUME Gate!GatewayInv, NEW r \in Call,
           \/ Gate!Start(r) \/ Gate!FindKey(r) \/ Gate!FindUser(r) \/ Gate!NodeChecks(r)
           \/ Gate!NodeActs(r) \/ Gate!NodeFails(r) \/ Gate!Answer(r) \/ Gate!ConnectionError(r)
    PROVE  Gate!GatewayInv'
<1>1. /\ v7 \in [Call -> Gate!Requests] /\ v7[r] \in Gate!Requests /\ v7[r].key <= Len(v3)
      /\ v3 \in Seq(User) /\ v4 \subseteq User /\ Len(v3) \in Nat /\ Len(v3) <= MaxKeys /\ MaxKeys \in Nat
      /\ DOMAIN v2 \subseteq 1..MaxKeys /\ \A i \in DOMAIN v2 : v2[i] \in 1..Len(v3)
  BY ServicesAssumption DEF Gate!GatewayInv, Gate!GatewayTypes, Gate!TypeOK, Gate!Rows
<1>2. /\ v7[r].pc \in {"user", "call", "act", "answer"} => v7[r].key > 0 /\ v7[r].user = v3[v7[r].key]
      /\ v7[r].pc \in {"call", "act", "answer"} => r \in v9
      /\ v7[r].pc \in {"act", "answer"} => v7[r].about = v7[r].user
      /\ v7[r].pc = "answer" \/ v7[r].told = "200" => \E d \in v8 : d[1] = r
      /\ v7[r].pc \notin {"new", "told"} /\ v7[r].key > 0 /\ v1[v3[v7[r].key]] = "enabled" => r \in v9
  BY DEF Gate!GatewayInv, Gate!Passed, Gate!Holder
<1>3. \A d \in v8 : d[1] = r => /\ r \in v9 /\ v7[r].pc \in {"answer", "told"}
                                /\ v7[r].about = d[2] /\ v7[r].key > 0 /\ v3[v7[r].key] = d[2]
  BY DEF Gate!GatewayInv, Gate!Acted
<1>4. v7[r].key \in Nat /\ \A k \in 1..Len(v3) : v3[k] \in User
  BY <1>1 DEF Gate!Requests, Gate!Keys
\* told that it failed
<1>5. ASSUME NEW what \in {"401", "403", "500"}, v7[r].pc # "told", v7[r].pc # "new",
             Gate!Told(r, what), UNCHANGED <<v1, v2, v3, v4, v5, v8, v9>>
      PROVE  Gate!GatewayInv'
  <2> DEFINE q == [v7[r] EXCEPT !.pc = "told", !.told = what]
  <2>1. v7' = [v7 EXCEPT ![r] = q]
    BY <1>1, <1>5 DEF Gate!Told
  <2>2. q \in Gate!Requests /\ q.pc = "told" /\ q.told = what /\ q.key = v7[r].key /\ q.about = v7[r].about
    BY <1>1 DEF Gate!Requests
  <2>3. v7'[r] = q
    BY <1>1, <2>1
  <2> HIDE DEF q
  <2>4. Gate!Passed(r)'
    BY <2>2, <2>3 DEF Gate!Passed
  <2>5. \A d \in v8' : d[1] = r => /\ r \in v9' /\ q.pc \in {"answer", "told"}
                                   /\ q.about = d[2] /\ q.key > 0 /\ v3[q.key] = d[2]
    BY <1>3, <1>5, <2>2
  <2> QED
    BY <1>1, <1>5, <2>1, <2>2, <2>4, <2>5, RequestGoesOn
<1>6. CASE Gate!Start(r)
  <2>1. PICK k \in 0..Len(v3), u \in User :
          /\ v7' = [v7 EXCEPT ![r].pc = "key", ![r].key = k, ![r].about = u]
          /\ v9' = IF k > 0 /\ v1[v3[k]] = "enabled" THEN v9 \cup {r} ELSE v9
    BY <1>6 DEF Gate!Start
  <2> DEFINE q == [v7[r] EXCEPT !.pc = "key", !.key = k, !.about = u]
  <2>2. v7[r].pc = "new" /\ UNCHANGED <<v1, v2, v3, v4, v5, v8>>
    BY <1>6 DEF Gate!Start
  <2>3. v7' = [v7 EXCEPT ![r] = q]
    BY <1>1, <2>1
  <2>4. q \in Gate!Requests /\ q.pc = "key" /\ q.told = v7[r].told /\ q.key = k /\ k <= Len(v3)
    <3>1. k \in 0..MaxKeys /\ k <= Len(v3)
      BY <1>1, <2>1
    <3> QED
      BY <1>1, <3>1 DEF Gate!Requests, Gate!Keys
  <2>5. v7'[r] = q
    BY <1>1, <2>3
  <2> HIDE DEF q
  <2>6. Gate!Passed(r)'
    BY <1>2, <2>1, <2>2, <2>4, <2>5 DEF Gate!Passed
  <2>7. \A d \in v8' : d[1] # r
    BY <1>3, <2>2
  <2> QED
    BY <1>1, <2>1, <2>2, <2>3, <2>4, <2>6, <2>7, RequestGoesOn
<1>7. CASE Gate!FindKey(r)
  <2>1. v7[r].pc = "key" /\ UNCHANGED <<v1, v2, v3, v4, v5, v8, v9>>
    BY <1>7 DEF Gate!FindKey
  <2>2. CASE Gate!Told(r, "401")
    BY <1>5, <2>1, <2>2
  <2>3. CASE ~ Gate!Told(r, "401")
    <3>1. PICK i \in DOMAIN v2 :
            /\ v2[i] = v7[r].key
            /\ v7' = [v7 EXCEPT ![r].pc = "user", ![r].row = i, ![r].user = v3[v2[i]]]
      BY <1>7, <2>3 DEF Gate!FindKey
    <3> DEFINE q == [v7[r] EXCEPT !.pc = "user", !.row = i, !.user = v3[v2[i]]]
    <3>2. v7' = [v7 EXCEPT ![r] = q]
      BY <1>1, <3>1
    <3>3. v3[v2[i]] \in User /\ i \in 0..MaxKeys /\ v7[r].key > 0
      BY <1>1, <1>4, <3>1
    <3>4. /\ q \in Gate!Requests /\ q.pc = "user" /\ q.told = v7[r].told /\ q.key = v7[r].key
          /\ q.user = v3[v7[r].key]
      BY <1>1, <3>1, <3>3 DEF Gate!Requests
    <3>5. v7'[r] = q
      BY <1>1, <3>2
    <3> HIDE DEF q
    <3>6. Gate!Passed(r)'
      BY <1>2, <2>1, <3>3, <3>4, <3>5 DEF Gate!Passed, Gate!Holder
    <3>7. \A d \in v8' : d[1] # r
      BY <1>3, <2>1
    <3> QED
      BY <1>1, <2>1, <3>2, <3>4, <3>6, <3>7, RequestGoesOn
  <2> QED
    BY <2>2, <2>3
<1>8. CASE Gate!FindUser(r)
  <2>1. v7[r].pc = "user" /\ UNCHANGED <<v1, v2, v3, v4, v5, v8, v9>>
    BY <1>8 DEF Gate!FindUser
  <2>2. CASE Gate!Told(r, "401") \/ Gate!Told(r, "403")
    BY <1>5, <2>1, <2>2
  <2>3. CASE ~ (Gate!Told(r, "401") \/ Gate!Told(r, "403"))
    <3>1. /\ v1[v7[r].user] = "enabled"
          /\ v7' = [v7 EXCEPT ![r].pc = "call", ![r].user = v7[r].user]
      BY <1>8, <2>3 DEF Gate!FindUser, Gate!FoundUser, Gate!Exists
    <3> DEFINE q == [v7[r] EXCEPT !.pc = "call", !.user = v7[r].user]
    <3>2. v7' = [v7 EXCEPT ![r] = q]
      BY <1>1, <3>1
    <3>3. /\ q \in Gate!Requests /\ q.pc = "call" /\ q.told = v7[r].told /\ q.key = v7[r].key
          /\ q.user = v7[r].user
      BY <1>1 DEF Gate!Requests
    <3>4. v7'[r] = q
      BY <1>1, <3>2
    <3> HIDE DEF q
    <3>5. Gate!Passed(r)'
      BY <1>2, <2>1, <3>1, <3>3, <3>4 DEF Gate!Passed, Gate!Holder
    <3>6. \A d \in v8' : d[1] # r
      BY <1>3, <2>1
    <3> QED
      BY <1>1, <2>1, <3>2, <3>3, <3>5, <3>6, RequestGoesOn
  <2> QED
    BY <2>2, <2>3
\* it goes on as before
<1>9. ASSUME NEW pc \in {"act", "answer"}, v7' = [v7 EXCEPT ![r].pc = pc],
             UNCHANGED <<v1, v2, v3, v4, v5, v9>>,
             v7[r].pc \in {"call", "act"}, v7[r].about = v7[r].user,
             v8' = IF pc = "act" THEN v8 ELSE v8 \cup {<<r, v7[r].user>>}
      PROVE  Gate!GatewayInv'
  <2> DEFINE q == [v7[r] EXCEPT !.pc = pc]
  <2>1. v7' = [v7 EXCEPT ![r] = q]
    BY <1>1, <1>9
  <2>2. /\ q \in Gate!Requests /\ q.pc = pc /\ q.told = v7[r].told /\ q.key = v7[r].key
        /\ q.user = v7[r].user /\ q.about = v7[r].about
    BY <1>1 DEF Gate!Requests
  <2>3. v7'[r] = q
    BY <1>1, <2>1
  <2> HIDE DEF q
  <2>4. pc = "answer" \/ v7[r].told = "200" => \E d \in v8' : d[1] = r
    <3>1. CASE pc = "act"
      BY <1>2, <1>9, <3>1
    <3>2. CASE pc = "answer"
      <4>1. <<r, v7[r].user>> \in v8' /\ <<r, v7[r].user>>[1] = r
        BY <1>9, <3>2
      <4> QED
        BY <4>1
    <3> QED
      BY <3>1, <3>2
  <2>5. Gate!Passed(r)'
    BY <1>2, <1>9, <2>2, <2>3, <2>4 DEF Gate!Passed, Gate!Holder
  <2>6. \A d \in v8' : d[1] = r => pc = "answer" /\ d[2] = v7[r].user
    BY <1>3, <1>9
  <2>7. \A d \in v8' : d \in v8 \/ d[1] = r
    BY <1>9
  <2>8. \A d \in v8' : d[1] = r => /\ r \in v9' /\ q.pc \in {"answer", "told"}
                                   /\ q.about = d[2] /\ q.key > 0 /\ v3[q.key] = d[2]
    BY <1>2, <1>9, <2>2, <2>6
  <2> QED
    BY <1>1, <1>9, <2>1, <2>2, <2>5, <2>7, <2>8, RequestGoesOn
<1>10. CASE Gate!NodeChecks(r)
  <2>1. v7[r].pc = "call" /\ UNCHANGED <<v1, v2, v3, v4, v5, v8, v9>>
    BY <1>10 DEF Gate!NodeChecks
  <2>2. CASE Gate!Told(r, "500")
    BY <1>5, <2>1, <2>2
  <2>3. CASE ~ Gate!Told(r, "500")
    BY <1>9, <1>10, <2>1, <2>3 DEF Gate!NodeChecks
  <2> QED
    BY <2>2, <2>3
<1>11. CASE Gate!NodeActs(r)
  BY <1>2, <1>9, <1>11 DEF Gate!NodeActs
<1>12. CASE Gate!NodeFails(r)
  BY <1>5, <1>12 DEF Gate!NodeFails
<1>13. CASE Gate!Answer(r)
  <2>1. v7[r].pc = "answer" /\ Gate!Told(r, "200") /\ UNCHANGED <<v1, v2, v3, v4, v5, v8, v9>>
    BY <1>13 DEF Gate!Answer
  <2> DEFINE q == [v7[r] EXCEPT !.pc = "told", !.told = "200"]
  <2>2. v7' = [v7 EXCEPT ![r] = q]
    BY <1>1, <2>1 DEF Gate!Told
  <2>3. q \in Gate!Requests /\ q.pc = "told" /\ q.told = "200" /\ q.key = v7[r].key /\ q.about = v7[r].about
    BY <1>1 DEF Gate!Requests
  <2>4. v7'[r] = q
    BY <1>1, <2>2
  <2> HIDE DEF q
  <2>5. Gate!Passed(r)'
    BY <1>2, <2>1, <2>3, <2>4 DEF Gate!Passed
  <2>6. \A d \in v8' : d[1] = r => /\ r \in v9' /\ q.pc \in {"answer", "told"}
                                   /\ q.about = d[2] /\ q.key > 0 /\ v3[q.key] = d[2]
    BY <1>3, <2>1, <2>3
  <2> QED
    BY <1>1, <2>1, <2>2, <2>3, <2>5, <2>6, RequestGoesOn
<1>14. CASE Gate!ConnectionError(r)
  BY <1>5, <1>14 DEF Gate!ConnectionError
<1> QED
  BY <1>6, <1>7, <1>8, <1>10, <1>11, <1>12, <1>13, <1>14

\* At the start nobody has an account.
LEMMA GatewayStart == Gate!Init => Gate!GatewayInv
<1> SUFFICES ASSUME Gate!Init PROVE Gate!GatewayInv
  OBVIOUS
<1>1. /\ v1 = [u \in User |-> "none"] /\ DOMAIN v2 = {} /\ v3 = <<>> /\ v4 = {}
      /\ v5 = [s \in Admin |-> [op |-> "none", user |-> NoUser, row |-> 0]]
      /\ v7 = [r \in Call |-> [pc |-> "new", key |-> 0, about |-> NoUser, row |-> 0,
                               user |-> NoUser, told |-> "none"]]
      /\ v8 = {} /\ v9 = {}
  BY DEF Gate!Init, Gate!NoCommand, Gate!FreshRequest
<1>2. MaxKeys \in Nat /\ Len(v3) = 0
  BY <1>1, ServicesAssumption
<1>3. v5 \in [Admin -> Gate!Commands] /\ v7 \in [Call -> Gate!Requests]
  BY <1>1, <1>2 DEF Gate!Commands, Gate!Requests, Gate!Keys
<1>4. Gate!GatewayTypes
  BY <1>1, <1>2, <1>3 DEF Gate!GatewayTypes, Gate!TypeOK
<1>5. Gate!Created /\ Gate!Acted
  BY <1>1, <1>2 DEF Gate!Created, Gate!Acted
<1>6. \A r \in Call : Gate!Passed(r)
  BY <1>1 DEF Gate!Passed
<1> QED
  BY <1>4, <1>5, <1>6 DEF Gate!GatewayInv

LEMMA GatewayGoesOn == Gate!GatewayInv /\ [Gate!Next]_(Gate!vars) => Gate!GatewayInv'
<1> SUFFICES ASSUME Gate!GatewayInv, [Gate!Next]_(Gate!vars) PROVE Gate!GatewayInv'
  OBVIOUS
<1>1. CASE Gate!Next
  BY <1>1, CommandStep, RequestStep DEF Gate!Next
<1>2. CASE UNCHANGED Gate!vars
  BY <1>2 DEF Gate!vars, Gate!GatewayInv, Gate!GatewayTypes, Gate!TypeOK, Gate!Created,
              Gate!Acted, Gate!Passed, Gate!Holder
<1> QED
  BY <1>1, <1>2

\* The node acts for nobody but the user whose key was presented, who was enabled at some
\* time since the request began.
THEOREM GatewayCorrect == Spec => []ActsForKeyHolder
<1> DEFINE Inv == part = "gateway" => Gate!GatewayInv
<1>1. Init => Inv
  BY GatewayStart DEF Init
<1>2. Inv /\ [Next]_vars => Inv'
  BY OnePart, GatewayGoesOn
<1>3. Inv => ActsForKeyHolder
  BY DEF ActsForKeyHolder, Gate!ActsForKeyHolder, Gate!GatewayInv, Gate!Acted, Gate!Passed
<1> QED
  BY <1>1, <1>2, <1>3, PTL DEF Spec

-----------------------------------------------------------------------------
(* The keystore file.  v1 is file, v2 mem, v3 pc, v4 table, v5 wrote, v6 sent, *)
(* v7 overlap and v8 back.                                                    *)

\* Types.
LEMMA KeystoreTyped ==
    ASSUME Keystore!TypeOK, v8 \in BOOLEAN, Keystore!Next PROVE Keystore!TypeOK' /\ v8' \in BOOLEAN
<1> USE ServicesAssumption DEF Keystore!TypeOK, Keystore!Contents, Keystore!Goto
<1>1. ASSUME NEW s \in Process, Keystore!Load(s) PROVE Keystore!TypeOK' /\ v8' \in BOOLEAN
  BY <1>1 DEF Keystore!Load, Keystore!Unlocked, Keystore!Readable, Keystore!Goto
<1>2. ASSUME NEW s \in Process, Keystore!Change(s) PROVE Keystore!TypeOK' /\ v8' \in BOOLEAN
  BY <1>2 DEF Keystore!Change, Keystore!Goto
<1>3. ASSUME NEW s \in Process, Keystore!SyncBegin(s) PROVE Keystore!TypeOK' /\ v8' \in BOOLEAN
  BY <1>3 DEF Keystore!SyncBegin, Keystore!Renewed, Keystore!Broken, Keystore!Goto
<1>4. ASSUME NEW s \in Process, Keystore!SyncEnd(s) PROVE Keystore!TypeOK' /\ v8' \in BOOLEAN
  BY <1>4 DEF Keystore!SyncEnd, Keystore!Writing, Keystore!Broken, Keystore!Goto
<1>5. ASSUME NEW s \in Process, Keystore!Publish(s) PROVE Keystore!TypeOK' /\ v8' \in BOOLEAN
  BY <1>5 DEF Keystore!Publish, Keystore!Goto
<1>6. ASSUME NEW s \in Process, Keystore!End(s) PROVE Keystore!TypeOK' /\ v8' \in BOOLEAN
  BY <1>6 DEF Keystore!End, Keystore!Goto
<1>7. ASSUME NEW s \in Process, Keystore!Crash(s) PROVE Keystore!TypeOK' /\ v8' \in BOOLEAN
  BY <1>7 DEF Keystore!Crash, Keystore!Goto
<1>8. ASSUME NEW s \in Process, Keystore!Remove(s) PROVE Keystore!TypeOK' /\ v8' \in BOOLEAN
  BY <1>8 DEF Keystore!Remove, Keystore!Goto
<1> QED
  BY <1>1, <1>2, <1>3, <1>4, <1>5, <1>6, <1>7, <1>8
     DEF Keystore!Next, Keystore!ChangeProfile, Keystore!AddCredential,
         Keystore!RemoveCredential

\* Sessions that are alive together overlap.
LEMMA KeepsAliveOverlap ==
    ASSUME Keystore!KeystoreInv, Keystore!Next PROVE Keystore!AliveOverlap'
<1>0. /\ v1 \in Keystore!Contents /\ v4 \in Keystore!Contents
      /\ v2 \in [Process -> Keystore!Contents]
      /\ v3 \in [Process -> {"new", "loaded", "sync", "write", "saved", "ended"}]
      /\ v5 \subseteq Process /\ v6 \subseteq Process
  BY DEF Keystore!KeystoreInv, Keystore!TypeOK
<1> USE <1>0 DEF Keystore!KeystoreInv, Keystore!Contents, Keystore!Alive, Keystore!Alone,
        Keystore!AliveOverlap, Keystore!OwnChange, Keystore!WrittenSeen, Keystore!NonceOfFile,
        Keystore!NonceOfRecord, Keystore!LostToOverlapOnly
<1>1. ASSUME NEW s \in Process, Keystore!Load(s) PROVE Keystore!AliveOverlap'
  BY <1>1 DEF Keystore!Load, Keystore!Unlocked, Keystore!Readable, Keystore!Goto
<1>2. ASSUME NEW s \in Process, Keystore!Change(s) PROVE Keystore!AliveOverlap'
  BY <1>2 DEF Keystore!Change, Keystore!Goto
<1>3. ASSUME NEW s \in Process, Keystore!SyncBegin(s) PROVE Keystore!AliveOverlap'
  BY <1>3 DEF Keystore!SyncBegin, Keystore!Renewed, Keystore!Broken, Keystore!Goto
<1>4. ASSUME NEW s \in Process, Keystore!SyncEnd(s) PROVE Keystore!AliveOverlap'
  BY <1>4 DEF Keystore!SyncEnd, Keystore!Writing, Keystore!Broken, Keystore!Goto
<1>5. ASSUME NEW s \in Process, Keystore!Publish(s) PROVE Keystore!AliveOverlap'
  BY <1>5 DEF Keystore!Publish, Keystore!Goto
<1>6. ASSUME NEW s \in Process, Keystore!End(s) PROVE Keystore!AliveOverlap'
  BY <1>6 DEF Keystore!End, Keystore!Goto
<1>7. ASSUME NEW s \in Process, Keystore!Crash(s) PROVE Keystore!AliveOverlap'
  BY <1>7 DEF Keystore!Crash, Keystore!Goto
<1>8. ASSUME NEW s \in Process, Keystore!Remove(s) PROVE Keystore!AliveOverlap'
  BY <1>8 DEF Keystore!Remove, Keystore!Goto
<1> QED
  BY <1>1, <1>2, <1>3, <1>4, <1>5, <1>6, <1>7, <1>8
     DEF Keystore!Next, Keystore!ChangeProfile, Keystore!AddCredential,
         Keystore!RemoveCredential

\* A session keeps its own change until it ends.
LEMMA KeepsOwnChange ==
    ASSUME Keystore!KeystoreInv, Keystore!Next PROVE Keystore!OwnChange'
<1>0. /\ v1 \in Keystore!Contents /\ v4 \in Keystore!Contents
      /\ v2 \in [Process -> Keystore!Contents]
      /\ v3 \in [Process -> {"new", "loaded", "sync", "write", "saved", "ended"}]
      /\ v5 \subseteq Process /\ v6 \subseteq Process
  BY DEF Keystore!KeystoreInv, Keystore!TypeOK
<1> USE <1>0 DEF Keystore!KeystoreInv, Keystore!Contents, Keystore!Alive, Keystore!Alone,
        Keystore!AliveOverlap, Keystore!OwnChange, Keystore!WrittenSeen, Keystore!NonceOfFile,
        Keystore!NonceOfRecord, Keystore!LostToOverlapOnly
<1>1. ASSUME NEW s \in Process, Keystore!Load(s) PROVE Keystore!OwnChange'
  BY <1>1 DEF Keystore!Load, Keystore!Unlocked, Keystore!Readable, Keystore!Goto
<1>2. ASSUME NEW s \in Process, Keystore!Change(s) PROVE Keystore!OwnChange'
  BY <1>2 DEF Keystore!Change, Keystore!Goto
<1>3. ASSUME NEW s \in Process, Keystore!SyncBegin(s) PROVE Keystore!OwnChange'
  BY <1>3 DEF Keystore!SyncBegin, Keystore!Renewed, Keystore!Broken, Keystore!Goto
<1>4. ASSUME NEW s \in Process, Keystore!SyncEnd(s) PROVE Keystore!OwnChange'
  BY <1>4 DEF Keystore!SyncEnd, Keystore!Writing, Keystore!Broken, Keystore!Goto
<1>5. ASSUME NEW s \in Process, Keystore!Publish(s) PROVE Keystore!OwnChange'
  BY <1>5 DEF Keystore!Publish, Keystore!Goto
<1>6. ASSUME NEW s \in Process, Keystore!End(s) PROVE Keystore!OwnChange'
  BY <1>6 DEF Keystore!End, Keystore!Goto
<1>7. ASSUME NEW s \in Process, Keystore!Crash(s) PROVE Keystore!OwnChange'
  BY <1>7 DEF Keystore!Crash, Keystore!Goto
<1>8. ASSUME NEW s \in Process, Keystore!Remove(s) PROVE Keystore!OwnChange'
  BY <1>8 DEF Keystore!Remove, Keystore!Goto
<1> QED
  BY <1>1, <1>2, <1>3, <1>4, <1>5, <1>6, <1>7, <1>8
     DEF Keystore!Next, Keystore!ChangeProfile, Keystore!AddCredential,
         Keystore!RemoveCredential

\* A session sees what those it does not overlap with have written.
LEMMA KeepsWrittenSeen ==
    ASSUME Keystore!KeystoreInv, Keystore!Next PROVE Keystore!WrittenSeen'
<1>0. /\ v1 \in Keystore!Contents /\ v4 \in Keystore!Contents
      /\ v2 \in [Process -> Keystore!Contents]
      /\ v3 \in [Process -> {"new", "loaded", "sync", "write", "saved", "ended"}]
      /\ v5 \subseteq Process /\ v6 \subseteq Process
  BY DEF Keystore!KeystoreInv, Keystore!TypeOK
<1> USE <1>0 DEF Keystore!KeystoreInv, Keystore!Contents, Keystore!Alive, Keystore!Alone,
        Keystore!AliveOverlap, Keystore!OwnChange, Keystore!WrittenSeen, Keystore!NonceOfFile,
        Keystore!NonceOfRecord, Keystore!LostToOverlapOnly
<1>1. ASSUME NEW s \in Process, Keystore!Load(s) PROVE Keystore!WrittenSeen'
  BY <1>1 DEF Keystore!Load, Keystore!Unlocked, Keystore!Readable, Keystore!Goto
<1>2. ASSUME NEW s \in Process, Keystore!Change(s) PROVE Keystore!WrittenSeen'
  <2>1. \A t \in Process : v2[t].items \subseteq v2'[t].items
    BY <1>2 DEF Keystore!Change
  <2>2. Keystore!Alive(s) /\ \A t \in Process \ {s} : v3'[t] = v3[t]
    BY <1>2 DEF Keystore!Change, Keystore!Goto
  <2>3. UNCHANGED <<v5, v7>>
    BY <1>2 DEF Keystore!Change
  <2>4. \A t \in Process : Keystore!Alive(t)' => Keystore!Alive(t)
    BY <2>2
  <2> QED
    BY <2>1, <2>3, <2>4
<1>3. ASSUME NEW s \in Process, Keystore!SyncBegin(s) PROVE Keystore!WrittenSeen'
  <2>1. \A t \in Process : v2'[t].items = v2[t].items
    BY <1>3 DEF Keystore!SyncBegin, Keystore!Renewed
  <2>2. Keystore!Alive(s) /\ \A t \in Process \ {s} : v3'[t] = v3[t]
    BY <1>3 DEF Keystore!SyncBegin, Keystore!Goto
  <2>3. UNCHANGED <<v5, v7>>
    BY <1>3 DEF Keystore!SyncBegin
  <2>4. \A t \in Process : Keystore!Alive(t)' => Keystore!Alive(t)
    BY <2>2
  <2> QED
    BY <2>1, <2>3, <2>4
<1>4. ASSUME NEW s \in Process, Keystore!SyncEnd(s) PROVE Keystore!WrittenSeen'
  BY <1>4 DEF Keystore!SyncEnd, Keystore!Writing, Keystore!Broken, Keystore!Goto
<1>5. ASSUME NEW s \in Process, Keystore!Publish(s) PROVE Keystore!WrittenSeen'
  BY <1>5 DEF Keystore!Publish, Keystore!Goto
<1>6. ASSUME NEW s \in Process, Keystore!End(s) PROVE Keystore!WrittenSeen'
  BY <1>6 DEF Keystore!End, Keystore!Goto
<1>7. ASSUME NEW s \in Process, Keystore!Crash(s) PROVE Keystore!WrittenSeen'
  BY <1>7 DEF Keystore!Crash, Keystore!Goto
<1>8. ASSUME NEW s \in Process, Keystore!Remove(s) PROVE Keystore!WrittenSeen'
  BY <1>8 DEF Keystore!Remove, Keystore!Goto
<1> QED
  BY <1>1, <1>2, <1>3, <1>4, <1>5, <1>6, <1>7, <1>8
     DEF Keystore!Next, Keystore!ChangeProfile, Keystore!AddCredential,
         Keystore!RemoveCredential

\* A session that overlaps with nobody has the nonce of the file.
LEMMA KeepsNonceOfFile ==
    ASSUME Keystore!KeystoreInv, Keystore!Next PROVE Keystore!NonceOfFile'
<1>0. /\ v1 \in Keystore!Contents /\ v4 \in Keystore!Contents
      /\ v2 \in [Process -> Keystore!Contents]
      /\ v3 \in [Process -> {"new", "loaded", "sync", "write", "saved", "ended"}]
      /\ v5 \subseteq Process /\ v6 \subseteq Process
  BY DEF Keystore!KeystoreInv, Keystore!TypeOK
<1> USE <1>0 DEF Keystore!KeystoreInv, Keystore!Contents, Keystore!Alive, Keystore!Alone,
        Keystore!AliveOverlap, Keystore!OwnChange, Keystore!WrittenSeen, Keystore!NonceOfFile,
        Keystore!NonceOfRecord, Keystore!LostToOverlapOnly
<1>1. ASSUME NEW s \in Process, Keystore!Load(s) PROVE Keystore!NonceOfFile'
  BY <1>1 DEF Keystore!Load, Keystore!Unlocked, Keystore!Readable, Keystore!Goto
<1>2. ASSUME NEW s \in Process, Keystore!Change(s) PROVE Keystore!NonceOfFile'
  BY ZenonT(40), <1>2 DEF Keystore!Change, Keystore!Goto
<1>3. ASSUME NEW s \in Process, Keystore!SyncBegin(s) PROVE Keystore!NonceOfFile'
  BY <1>3 DEF Keystore!SyncBegin, Keystore!Renewed, Keystore!Broken, Keystore!Goto
<1>4. ASSUME NEW s \in Process, Keystore!SyncEnd(s) PROVE Keystore!NonceOfFile'
  BY <1>4 DEF Keystore!SyncEnd, Keystore!Writing, Keystore!Broken, Keystore!Goto
<1>5. ASSUME NEW s \in Process, Keystore!Publish(s) PROVE Keystore!NonceOfFile'
  BY <1>5 DEF Keystore!Publish, Keystore!Goto
<1>6. ASSUME NEW s \in Process, Keystore!End(s) PROVE Keystore!NonceOfFile'
  BY <1>6 DEF Keystore!End, Keystore!Goto
<1>7. ASSUME NEW s \in Process, Keystore!Crash(s) PROVE Keystore!NonceOfFile'
  BY <1>7 DEF Keystore!Crash, Keystore!Goto
<1>8. ASSUME NEW s \in Process, Keystore!Remove(s) PROVE Keystore!NonceOfFile'
  BY <1>8 DEF Keystore!Remove, Keystore!Goto
<1> QED
  BY <1>1, <1>2, <1>3, <1>4, <1>5, <1>6, <1>7, <1>8
     DEF Keystore!Next, Keystore!ChangeProfile, Keystore!AddCredential,
         Keystore!RemoveCredential

\* The record follows the file.
LEMMA KeepsNonceOfRecord ==
    ASSUME Keystore!KeystoreInv, Keystore!Next PROVE Keystore!NonceOfRecord'
<1>0. /\ v1 \in Keystore!Contents /\ v4 \in Keystore!Contents
      /\ v2 \in [Process -> Keystore!Contents]
      /\ v3 \in [Process -> {"new", "loaded", "sync", "write", "saved", "ended"}]
      /\ v5 \subseteq Process /\ v6 \subseteq Process
  BY DEF Keystore!KeystoreInv, Keystore!TypeOK
<1> USE <1>0 DEF Keystore!KeystoreInv, Keystore!Contents, Keystore!Alive, Keystore!Alone,
        Keystore!AliveOverlap, Keystore!OwnChange, Keystore!WrittenSeen, Keystore!NonceOfFile,
        Keystore!NonceOfRecord, Keystore!LostToOverlapOnly
<1>1. ASSUME NEW s \in Process, Keystore!Load(s) PROVE Keystore!NonceOfRecord'
  <2>1. v2'[s] = v1 /\ \A t \in Process \ {s} : v2'[t] = v2[t]
    BY <1>1 DEF Keystore!Load, Keystore!Unlocked
  <2>2. v3'[s] = "loaded" /\ \A t \in Process \ {s} : v3'[t] = v3[t]
    BY <1>1 DEF Keystore!Load, Keystore!Goto
  <2>3. UNCHANGED <<v1, v4, v8>> /\ v7 \subseteq v7'
    BY <1>1 DEF Keystore!Load
  <2>4. v1.nonce \in Int /\ v1.nonce <= v1.nonce
    BY <1>0, ServicesAssumption
  <2>5. \A t \in Process : Keystore!Alone(t)' => Keystore!Alone(t)
    BY <2>3
  <2> QED
    BY <2>1, <2>2, <2>3, <2>4, <2>5
<1>2. ASSUME NEW s \in Process, Keystore!Change(s) PROVE Keystore!NonceOfRecord'
  BY <1>2 DEF Keystore!Change, Keystore!Goto
<1>3. ASSUME NEW s \in Process, Keystore!SyncBegin(s) PROVE Keystore!NonceOfRecord'
  BY <1>3 DEF Keystore!SyncBegin, Keystore!Renewed, Keystore!Broken, Keystore!Goto
<1>4. ASSUME NEW s \in Process, Keystore!SyncEnd(s) PROVE Keystore!NonceOfRecord'
  <2> SUFFICES ASSUME ~ v8' PROVE Keystore!NonceOfRecord'
    OBVIOUS
  <2>1. v3[s] = "write" /\ v3'[s] = "saved" /\ \A t \in Process \ {s} : v3'[t] = v3[t]
    BY <1>4 DEF Keystore!SyncEnd, Keystore!Writing, Keystore!Goto
  <2>2. UNCHANGED <<v2, v4, v7>> /\ ~ v8 /\ ~ v2[s].nonce < v1.nonce
    BY <1>4 DEF Keystore!SyncEnd
  <2>3. /\ v1.nonce \in Nat /\ v4.nonce \in Nat
        /\ \A t \in Process : v2[t].nonce \in Nat
    BY <1>0, ServicesAssumption
  <2>4. v1'.nonce = v2[s].nonce
    <3>1. Keystore!Broken \in Keystore!Contents /\ Keystore!Broken.nonce = v1.nonce
      BY <1>0 DEF Keystore!Broken
    <3>2. \/ v1' = v2[s]
          \/ v1' = [Keystore!Broken EXCEPT !.nonce = IF @ < v2[s].nonce THEN v2[s].nonce ELSE @]
      BY <1>4 DEF Keystore!SyncEnd
    <3>3. v1' = v2[s] \/ v1'.nonce = IF v1.nonce < v2[s].nonce THEN v2[s].nonce ELSE v1.nonce
      BY <3>1, <3>2
    <3>4. v1.nonce \in Nat /\ v2[s].nonce \in Nat /\ v2[s].nonce >= v1.nonce
      BY <2>2, <2>3
    <3>5. v1'.nonce = v2[s].nonce \/ v1'.nonce = IF v1.nonce < v2[s].nonce THEN v2[s].nonce ELSE v1.nonce
      BY <3>3
    <3> QED
      BY ONLY <3>4, <3>5
  <2>5. v1.nonce <= v1'.nonce
    BY <2>2, <2>3, <2>4
  <2>6. v4.nonce <= v1.nonce
        /\ \A t \in Process : v3[t] \in {"loaded", "saved"} => v2[t].nonce <= v1.nonce
    BY <2>2
  <2>7. Keystore!Alone(s) => v4.nonce < v2[s].nonce
    <3>1. Keystore!Alone(s) => v2[s].nonce = v1.nonce + 1
      BY <2>1
    <3> QED
      BY <2>3, <2>6, <3>1
  <2>8. \A t \in Process : v3'[t] \in {"loaded", "saved"} => v2[t].nonce <= v1'.nonce
    BY <2>1, <2>3, <2>4, <2>5, <2>6
  <2>9. \A t \in Process : v3'[t] = "saved" /\ Keystore!Alone(t) => v4.nonce < v2[t].nonce
    BY <2>1, <2>2, <2>7
  <2>10. v4.nonce <= v1'.nonce
    BY <2>3, <2>4, <2>5, <2>6
  <2> QED
    BY <2>2, <2>8, <2>9, <2>10
<1>5. ASSUME NEW s \in Process, Keystore!Publish(s) PROVE Keystore!NonceOfRecord'
  BY <1>5 DEF Keystore!Publish, Keystore!Goto
<1>6. ASSUME NEW s \in Process, Keystore!End(s) PROVE Keystore!NonceOfRecord'
  BY <1>6 DEF Keystore!End, Keystore!Goto
<1>7. ASSUME NEW s \in Process, Keystore!Crash(s) PROVE Keystore!NonceOfRecord'
  BY <1>7 DEF Keystore!Crash, Keystore!Goto
<1>8. ASSUME NEW s \in Process, Keystore!Remove(s) PROVE Keystore!NonceOfRecord'
  BY <1>8 DEF Keystore!Remove, Keystore!Goto
<1> QED
  BY <1>1, <1>2, <1>3, <1>4, <1>5, <1>6, <1>7, <1>8
     DEF Keystore!Next, Keystore!ChangeProfile, Keystore!AddCredential,
         Keystore!RemoveCredential

\* So changes are lost to overlapping sessions only.
LEMMA KeepsLostToOverlapOnly ==
    ASSUME Keystore!KeystoreInv, Keystore!Next PROVE Keystore!LostToOverlapOnly'
<1>0. /\ v1 \in Keystore!Contents /\ v4 \in Keystore!Contents
      /\ v2 \in [Process -> Keystore!Contents]
      /\ v3 \in [Process -> {"new", "loaded", "sync", "write", "saved", "ended"}]
      /\ v5 \subseteq Process /\ v6 \subseteq Process
  BY DEF Keystore!KeystoreInv, Keystore!TypeOK
<1> USE <1>0 DEF Keystore!KeystoreInv, Keystore!Contents, Keystore!Alive, Keystore!Alone,
        Keystore!AliveOverlap, Keystore!OwnChange, Keystore!WrittenSeen, Keystore!NonceOfFile,
        Keystore!NonceOfRecord, Keystore!LostToOverlapOnly
<1>1. ASSUME NEW s \in Process, Keystore!Load(s) PROVE Keystore!LostToOverlapOnly'
  BY <1>1 DEF Keystore!Load, Keystore!Unlocked, Keystore!Readable, Keystore!Goto
<1>2. ASSUME NEW s \in Process, Keystore!Change(s) PROVE Keystore!LostToOverlapOnly'
  BY <1>2 DEF Keystore!Change, Keystore!Goto
<1>3. ASSUME NEW s \in Process, Keystore!SyncBegin(s) PROVE Keystore!LostToOverlapOnly'
  BY <1>3 DEF Keystore!SyncBegin, Keystore!Renewed, Keystore!Broken, Keystore!Goto
<1>4. ASSUME NEW s \in Process, Keystore!SyncEnd(s) PROVE Keystore!LostToOverlapOnly'
  <2>1. UNCHANGED <<v4, v6, v7>> /\ v5' = v5 \cup {s} /\ v3[s] = "write" /\ (~ v8' => ~ v8)
    BY <1>4 DEF Keystore!SyncEnd, Keystore!Writing
  <2>2. v1'.status = "ok" => v1' = v2[s]
    <3>1. [[v1 EXCEPT !.status = "broken"] EXCEPT
             !.nonce = IF @ < v2[s].nonce THEN v2[s].nonce ELSE @].status = "broken"
      BY <1>0
    <3> QED
      BY <1>4, <3>1 DEF Keystore!SyncEnd, Keystore!Broken
  <2>3. s \in v2[s].items /\ \A t \in v5 \ {s} : Keystore!Alone(t) => t \in v2[s].items
    BY <2>1
  <2> QED
    BY <2>1, <2>2, <2>3
<1>5. ASSUME NEW s \in Process, Keystore!Publish(s) PROVE Keystore!LostToOverlapOnly'
  <2>1. /\ UNCHANGED <<v1, v2, v5, v7, v8>> /\ v3[s] \in {"loaded", "saved"}
        /\ v4' = IF v2[s].nonce > v4.nonce THEN v2[s] ELSE v4
        /\ v6' = IF v3[s] = "saved" THEN v6 \cup {s} ELSE v6
    BY <1>5 DEF Keystore!Publish
  <2>2. v4.nonce \in Nat /\ v2[s].nonce \in Nat
    BY <1>0, ServicesAssumption
  <2>3. s \notin v6 /\ \A t \in v6 : t \in v5 /\ (Keystore!Alone(t) => t \in v2[s].items)
    BY <2>1
  <2>4. v3[s] = "saved" /\ ~ v8 /\ Keystore!Alone(s) => s \in v4'.items
    BY <2>1, <2>2
  <2>5. ~ v8 => \A t \in v6' \cap Profile : t \in v4'.items \/ ~ Keystore!Alone(t)
    BY ZenonT(40), <2>1, <2>3, <2>4
  <2> QED
    BY <2>1, <2>5
<1>6. ASSUME NEW s \in Process, Keystore!End(s) PROVE Keystore!LostToOverlapOnly'
  BY <1>6 DEF Keystore!End, Keystore!Goto
<1>7. ASSUME NEW s \in Process, Keystore!Crash(s) PROVE Keystore!LostToOverlapOnly'
  BY <1>7 DEF Keystore!Crash, Keystore!Goto
<1>8. ASSUME NEW s \in Process, Keystore!Remove(s) PROVE Keystore!LostToOverlapOnly'
  BY <1>8 DEF Keystore!Remove, Keystore!Goto
<1> QED
  BY <1>1, <1>2, <1>3, <1>4, <1>5, <1>6, <1>7, <1>8
     DEF Keystore!Next, Keystore!ChangeProfile, Keystore!AddCredential,
         Keystore!RemoveCredential

\* At the start the keystore is new, and nobody has it open.
LEMMA KeystoreStart == Keystore!Init => Keystore!KeystoreInv
<1> SUFFICES ASSUME Keystore!Init PROVE Keystore!KeystoreInv
  OBVIOUS
<1>1. /\ v1 = [status |-> "ok", nonce |-> 1, items |-> {}] /\ v4 = v1
      /\ v2 = [s \in Process |-> v1] /\ v3 = [s \in Process |-> "new"]
      /\ v5 = {} /\ v6 = {} /\ v8 = FALSE
  BY DEF Keystore!Init, Keystore!New
<1>2. v1 \in Keystore!Contents
  BY <1>1, ServicesAssumption DEF Keystore!Contents
<1>3. Keystore!TypeOK /\ v8 \in BOOLEAN
  BY <1>1, <1>2 DEF Keystore!TypeOK
<1> QED
  BY <1>1, <1>3
     DEF Keystore!KeystoreInv, Keystore!Alive, Keystore!AliveOverlap, Keystore!OwnChange,
         Keystore!WrittenSeen, Keystore!NonceOfFile, Keystore!NonceOfRecord,
         Keystore!LostToOverlapOnly

LEMMA KeystoreGoesOn ==
    Keystore!KeystoreInv /\ [Keystore!Next]_(Keystore!vars) => Keystore!KeystoreInv'
<1> SUFFICES ASSUME Keystore!KeystoreInv, [Keystore!Next]_(Keystore!vars)
             PROVE  Keystore!KeystoreInv'
  OBVIOUS
<1>1. CASE Keystore!Next
  <2>1. Keystore!TypeOK' /\ v8' \in BOOLEAN
    BY <1>1, KeystoreTyped DEF Keystore!KeystoreInv
  <2> QED
    BY <1>1, <2>1, KeepsAliveOverlap, KeepsOwnChange, KeepsWrittenSeen, KeepsNonceOfFile,
       KeepsNonceOfRecord, KeepsLostToOverlapOnly DEF Keystore!KeystoreInv
<1>2. CASE UNCHANGED Keystore!vars
  BY <1>2 DEF Keystore!vars, Keystore!KeystoreInv, Keystore!TypeOK, Keystore!Alive,
              Keystore!Alone, Keystore!AliveOverlap, Keystore!OwnChange, Keystore!WrittenSeen,
              Keystore!NonceOfFile, Keystore!NonceOfRecord, Keystore!LostToOverlapOnly
<1> QED
  BY <1>1, <1>2

\* What a session changed and saved is lost only to one that was alive at the same time.
THEOREM KeystoreCorrect == Spec => []LostToOverlapOnly
<1> DEFINE Inv == part = "keystore" => Keystore!KeystoreInv
<1>1. Init => Inv
  BY KeystoreStart DEF Init
<1>2. Inv /\ [Next]_vars => Inv'
  BY OnePart, KeystoreGoesOn
<1>3. Inv => LostToOverlapOnly
  BY DEF LostToOverlapOnly, Keystore!KeystoreInv
<1> QED
  BY <1>1, <1>2, <1>3, PTL DEF Spec

-----------------------------------------------------------------------------
(* The checks of a submission *)

Resources == [vcpus : Nat, memory : Nat]

\* what the first k tasks of a batch need, by k
Totals(b, n, total) ==
    total = [k \in 0..Len(b) |->
               IF k = 0 THEN Checks!Nothing
               ELSE IF b[k].namespace = n THEN Checks!Plus(total[k - 1], b[k].budget)
               ELSE total[k - 1]]

\* The needs of a namespace can be added up, one task after the other.
LEMMA TotalsExist == ASSUME NEW b, Len(b) \in Nat, NEW n PROVE \E total : Totals(b, n, total)
<1> DEFINE Step(x, k) == IF b[k].namespace = n THEN Checks!Plus(x, b[k].budget) ELSE x
           Upto(m) == \E f : f = [k \in 0..m |-> IF k = 0 THEN Checks!Nothing ELSE Step(f[k - 1], k)]
           T == {m \in 0..Len(b) : ~ Upto(m)}
<1>1. Upto(0)
  <2> DEFINE f == [k \in 0..0 |-> Checks!Nothing]
  <2>1. f = [k \in 0..0 |-> IF k = 0 THEN Checks!Nothing ELSE Step(f[k - 1], k)]
    OBVIOUS
  <2> QED
    BY <2>1
<1>2. ASSUME NEW m \in Nat, m > 0, Upto(m - 1) PROVE Upto(m)
  <2> HIDE DEF Step
  <2>1. PICK f : f = [k \in 0..(m - 1) |-> IF k = 0 THEN Checks!Nothing ELSE Step(f[k - 1], k)]
    BY <1>2
  <2> DEFINE g == [k \in 0..m |-> IF k = m THEN Step(f[m - 1], m) ELSE f[k]]
  <2>2. ASSUME NEW k \in 0..m PROVE g[k] = IF k = 0 THEN Checks!Nothing ELSE Step(g[k - 1], k)
    <3>1. k > 0 => g[k - 1] = f[k - 1]
      BY <1>2
    <3>2. CASE k = m
      BY <1>2, <3>1, <3>2
    <3>3. CASE k # m
      <4>1. k \in 0..(m - 1) /\ g[k] = f[k]
        BY <3>3
      <4>2. f[k] = IF k = 0 THEN Checks!Nothing ELSE Step(f[k - 1], k)
        BY <2>1, <4>1
      <4> QED
        BY <3>1, <4>1, <4>2
    <3> QED
      BY <3>2, <3>3
  <2>3. g = [k \in 0..m |-> g[k]]
    OBVIOUS
  <2>4. g = [k \in 0..m |-> IF k = 0 THEN Checks!Nothing ELSE Step(g[k - 1], k)]
    <3> HIDE DEF g
    <3> QED
      BY <2>2, <2>3
  <2> QED
    BY <2>4
<1>3. T = {}
  <2> HIDE DEF Upto
  <2> SUFFICES ASSUME T # {} PROVE FALSE
    OBVIOUS
  <2>1. PICK x \in T : \A y \in T : x <= y
    <3>1. T \subseteq Nat
      OBVIOUS
    <3> HIDE DEF T
    <3> QED
      BY <3>1, Network!Least
  <2>2. x \in Nat /\ x # 0 /\ x \in 0..Len(b) /\ ~ Upto(x)
    BY <1>1
  <2>3. x - 1 \notin T /\ x - 1 \in 0..Len(b)
    BY <2>1, <2>2
  <2>4. Upto(x - 1)
    BY <2>3
  <2> QED
    BY <1>2, <2>2, <2>4
<1>4. Upto(Len(b))
  BY <1>3
<1> QED
  BY <1>4 DEF Totals

\* The needs of a namespace grow by those of each of its tasks.
LEMMA NeedsAdd ==
    ASSUME NEW b \in Batches, NEW n
    PROVE  /\ Checks!NeedsUpTo(b, n)[0] = Checks!Nothing
           /\ \A k \in 1..Len(b) : Checks!NeedsUpTo(b, n)[k] =
                IF b[k].namespace = n THEN Checks!Plus(Checks!NeedsUpTo(b, n)[k - 1], b[k].budget)
                ELSE Checks!NeedsUpTo(b, n)[k - 1]
<1> DEFINE t == CHOOSE total : Totals(b, n, total)
<1>1. Len(b) \in Nat
  BY ChecksAssumption
<1>2. Totals(b, n, t)
  BY <1>1, TotalsExist
<1>3. Checks!NeedsUpTo(b, n) = t
  BY DEF Checks!NeedsUpTo, Totals
<1> HIDE DEF t
<1>4. \A k \in 0..Len(b) : t[k] =
        IF k = 0 THEN Checks!Nothing
        ELSE IF b[k].namespace = n THEN Checks!Plus(t[k - 1], b[k].budget) ELSE t[k - 1]
  BY <1>2 DEF Totals
<1>5. t[0] = Checks!Nothing
  BY <1>1, <1>4
<1>6. ASSUME NEW k \in 1..Len(b)
      PROVE  t[k] = IF b[k].namespace = n THEN Checks!Plus(t[k - 1], b[k].budget) ELSE t[k - 1]
  BY <1>1, <1>4
<1> QED
  BY <1>3, <1>5, <1>6

\* A namespace needs at least what each of its tasks does.
LEMMA NeedsAtLeast ==
    ASSUME NEW b \in Batches, NEW n, NEW j \in 1..Len(b), b[j].namespace = n
    PROVE  LET needs == Checks!NeedsUpTo(b, n)[Len(b)] IN
           /\ needs \in Resources /\ b[j].budget \in Resources
           /\ needs.vcpus >= b[j].budget.vcpus /\ needs.memory >= b[j].budget.memory
<1>1. PICK t : t = Checks!NeedsUpTo(b, n)
  OBVIOUS
<1>2. Len(b) \in Nat /\ \A k \in 1..Len(b) : b[k].budget \in Resources
  BY ChecksAssumption DEF Resources
<1>3. /\ t[0] = Checks!Nothing
      /\ \A k \in 1..Len(b) : t[k] = IF b[k].namespace = n THEN Checks!Plus(t[k - 1], b[k].budget)
                                    ELSE t[k - 1]
  BY <1>1, NeedsAdd
<1> DEFINE Good(k) == /\ t[k] \in Resources
                      /\ k >= j => t[k].vcpus >= b[j].budget.vcpus /\ t[k].memory >= b[j].budget.memory
<1>4. Good(0)
  BY <1>2, <1>3 DEF Checks!Nothing, Resources
<1>5. ASSUME NEW k \in 1..Len(b), Good(k - 1) PROVE Good(k)
  <2>1. PICK x \in Resources, y \in Resources : x = t[k - 1] /\ y = b[k].budget
    BY <1>2, <1>5
  <2>2. t[k] = IF b[k].namespace = n THEN Checks!Plus(x, y) ELSE x
    BY <1>3, <2>1
  <2>3. /\ t[k] \in Resources /\ t[k].vcpus >= x.vcpus /\ t[k].memory >= x.memory
        /\ k = j => t[k].vcpus >= y.vcpus /\ t[k].memory >= y.memory
    BY SMTT(30), <2>1, <2>2 DEF Checks!Plus, Resources
  <2>4. CASE k = j
    BY <2>1, <2>3, <2>4
  <2>5. CASE k > j
    <3>1. x.vcpus >= b[j].budget.vcpus /\ x.memory >= b[j].budget.memory
      BY <1>2, <1>5, <2>1, <2>5
    <3>2. b[j].budget \in Resources
      BY <1>2
    <3> QED
      BY SMTT(30), <2>1, <2>3, <3>1, <3>2 DEF Resources
  <2>6. CASE k < j
    BY <1>2, <2>3, <2>6
  <2> QED
    BY <1>2, <2>4, <2>5, <2>6
<1>6. \A k \in 0..Len(b) : Good(k)
  <2> DEFINE T == {k \in 0..Len(b) : ~ Good(k)}
  <2> HIDE DEF Good
  <2> SUFFICES ASSUME T # {} PROVE FALSE
    OBVIOUS
  <2>1. PICK x \in T : \A y \in T : x <= y
    <3>1. T \subseteq Nat
      OBVIOUS
    <3> HIDE DEF T
    <3> QED
      BY <3>1, Network!Least
  <2>2. x \in 1..Len(b) /\ ~ Good(x)
    BY <1>2, <1>4
  <2>3. x - 1 \notin T /\ x - 1 \in 0..Len(b)
    BY <1>2, <2>1, <2>2
  <2> QED
    BY <1>5, <2>2, <2>3
<1>7. Good(Len(b)) /\ Len(b) >= j /\ b[j].budget \in Resources
  BY <1>2, <1>6
<1> QED
  BY <1>1, <1>7

\* Nothing has been checked yet.
LEMMA ChecksInit == Checks!Init => Checks!ChecksInv
<1> SUFFICES ASSUME Checks!Init PROVE Checks!ChecksInv
  OBVIOUS
<1>1. /\ v3 \in Batches /\ v4 = "caller" /\ v5 = 0 /\ v6 = {} /\ DOMAIN v7 = {} /\ v8 = Proc
      /\ v9 \in [Namespace -> Budgets] /\ v11 = 0
      /\ v10 = [procs |-> Proc, budgets |-> [n \in Namespace |-> {v9[n]}]]
  BY DEF Checks!Init
<1>2. Checks!ChecksTypes
  <2>1. Len(v3) \in Nat
    BY <1>1, ChecksAssumption
  <2>2. Checks!TypeOK
    BY <1>1, <2>1 DEF Checks!TypeOK
  <2>3. v10.budgets \in [Namespace -> SUBSET Budgets] /\ v10 = [procs |-> Proc, budgets |-> v10.budgets]
    BY <1>1
  <2> QED
    BY <1>1, <2>2, <2>3 DEF Checks!ChecksTypes
<1>3. /\ Checks!Offered /\ Checks!CallerChecked /\ Checks!ProcsFound /\ Checks!TasksChecked
      /\ Checks!Added /\ Checks!BudgetsFit /\ Checks!FilesFit /\ Checks!RejectedRightly
  BY <1>1 DEF Checks!Offered, Checks!CallerChecked, Checks!ProcsFound, Checks!TasksChecked,
     Checks!Added, Checks!BudgetsFit, Checks!FilesFit, Checks!RejectedRightly
<1> QED
  BY <1>2, <1>3 DEF Checks!ChecksInv

\* What is acceptable does not change while nobody changes anything.
LEMMA AcceptableStays ==
    ASSUME UNCHANGED <<v1, v2, v3, v10>>, v8' = v8
    PROVE  Checks!Acceptable(v8)' <=> Checks!Acceptable(v8)
BY DEF Checks!Acceptable, Checks!Indices, Checks!In, Checks!Needs

\* A check that moves on to the next leaves all that was established.
LEMMA CheckStep ==
    ASSUME Checks!ChecksInv, Checks!Unchanged, Checks!TypeOK',
           Checks!CallerChecked', Checks!ProcsFound', Checks!TasksChecked', Checks!Added',
           Checks!BudgetsFit', Checks!FilesFit',
           v4' = "rejected" /\ v11 = 0 => ~ Checks!Acceptable(v8)
    PROVE  Checks!ChecksInv'
<1>1. UNCHANGED <<v1, v2, v3, v8, v9, v10, v11>>
  BY DEF Checks!Unchanged
<1>2. Checks!ChecksTypes'
  BY <1>1 DEF Checks!ChecksInv, Checks!ChecksTypes
<1>3. Checks!Offered'
  BY <1>1 DEF Checks!ChecksInv, Checks!Offered
<1>4. Checks!RejectedRightly'
  BY <1>1, AcceptableStays DEF Checks!RejectedRightly
<1> QED
  BY <1>2, <1>3, <1>4 DEF Checks!ChecksInv

\* What the steps of the checks have in common.
LEMMA ChecksFacts ==
    ASSUME Checks!ChecksInv
    PROVE  /\ v3 \in Batches /\ Len(v3) \in Nat \ {0} /\ v5 \in 0..Len(v3) /\ 1 \in Checks!Indices
           /\ v6 \subseteq Checks!Indices /\ DOMAIN v7 \subseteq Namespace
           /\ v4 \in {"caller", "procs", "budgets", "io", "accepted", "rejected"}
           /\ v10.procs = Proc /\ v8 \subseteq Proc
BY ChecksAssumption DEF Checks!ChecksInv, Checks!ChecksTypes, Checks!TypeOK, Checks!Indices

\* The caller is looked at.
LEMMA CallerStep == ASSUME Checks!ChecksInv, Checks!CheckCaller PROVE Checks!ChecksInv'
<1>1. /\ v4 = "caller" /\ Checks!Unchanged /\ UNCHANGED <<v1, v2, v3, v8, v9, v10, v11>>
      /\ UNCHANGED <<v6, v7>>
      /\ \/ v4' = "rejected" /\ v5' = v5 /\ v1 = "rest" /\ \E k \in Checks!Indices : v3[k].user # v2
         \/ v4' = "procs" /\ v5' = 0 /\ (v1 = "rest" => \A k \in Checks!Indices : v3[k].user = v2)
  BY DEF Checks!CheckCaller, Checks!Unchanged, Checks!Rejected, Checks!Onto
<1>2. v5 = 0 /\ v6 = {} /\ DOMAIN v7 = {}
  BY <1>1 DEF Checks!ChecksInv, Checks!ProcsFound, Checks!Added
<1>3. Checks!TypeOK'
  BY <1>1, <1>2, ChecksFacts DEF Checks!TypeOK, Checks!Indices
<1>4. Checks!CallerChecked' /\ Checks!TasksChecked' /\ Checks!BudgetsFit' /\ Checks!FilesFit'
  BY <1>1 DEF Checks!CallerChecked, Checks!TasksChecked, Checks!BudgetsFit, Checks!FilesFit,
     Checks!Indices
<1>5. Checks!ProcsFound' /\ Checks!Added'
  BY <1>1, <1>2 DEF Checks!ProcsFound, Checks!Added
<1>6. v4' = "rejected" => ~ Checks!Acceptable(v8)
  BY <1>1, ChecksFacts DEF Checks!Acceptable
<1> QED
  BY <1>1, <1>3, <1>4, <1>5, <1>6, CheckStep

\* A processor is looked up.
LEMMA ProcStep == ASSUME Checks!ChecksInv, Checks!FindProc PROVE Checks!ChecksInv'
<1>1. /\ v4 = "procs" /\ v5 < Len(v3) /\ Checks!Unchanged
      /\ UNCHANGED <<v1, v2, v3, v8, v9, v10, v11>> /\ UNCHANGED <<v4, v7>> /\ v5' = v5 + 1
      /\ v6' = IF v3[v5 + 1].proc \in v8 THEN v6 \cup {v5 + 1} ELSE v6
  BY DEF Checks!FindProc, Checks!Unchanged
<1>2. Checks!TypeOK'
  BY <1>1, ChecksFacts DEF Checks!TypeOK, Checks!Indices
<1>3. Checks!CallerChecked' /\ Checks!TasksChecked' /\ Checks!BudgetsFit' /\ Checks!FilesFit'
      /\ Checks!Added'
  BY <1>1 DEF Checks!ChecksInv, Checks!CallerChecked, Checks!TasksChecked, Checks!BudgetsFit,
     Checks!FilesFit, Checks!Added, Checks!Indices
<1>4. Checks!ProcsFound'
  <2>1. /\ v6 \subseteq {k \in 1..v5 : v3[k].proc \in Proc}
        /\ v11 = 0 => v6 = {k \in 1..v5 : v3[k].proc \in v8}
    BY <1>1 DEF Checks!ChecksInv, Checks!ProcsFound
  <2>2. 1..(v5 + 1) = (1..v5) \cup {v5 + 1} /\ v8 \subseteq Proc
    BY ChecksFacts
  <2>3. v6' \subseteq {k \in 1..(v5 + 1) : v3[k].proc \in Proc}
    BY <1>1, <2>1, <2>2
  <2>4. v11 = 0 => v6' = {k \in 1..(v5 + 1) : v3[k].proc \in v8}
    BY <1>1, <2>1, <2>2
  <2> QED
    BY <1>1, <2>3, <2>4 DEF Checks!ProcsFound
<1> QED
  BY <1>1, <1>2, <1>3, <1>4, CheckStep

\* Names, processors and the user are checked.
LEMMA TasksStep == ASSUME Checks!ChecksInv, Checks!CheckTasks PROVE Checks!ChecksInv'
<1> DEFINE ok == /\ Checks!NamesOk /\ v6 = Checks!Indices /\ v3[1].user \in Registered
                 /\ \A k \in Checks!Indices : v3[k].user = v3[1].user
<1>1. /\ v4 = "procs" /\ v5 = Len(v3) /\ Checks!Unchanged
      /\ UNCHANGED <<v1, v2, v3, v8, v9, v10, v11>> /\ UNCHANGED <<v6, v7>>
      /\ (ok /\ v4' = "budgets" /\ v5' = 0) \/ (~ ok /\ v4' = "rejected" /\ v5' = v5)
  BY DEF Checks!CheckTasks, Checks!Unchanged, Checks!Rejected, Checks!Onto
<1>2. Checks!TypeOK'
  BY <1>1, ChecksFacts DEF Checks!TypeOK, Checks!Indices
<1>3. /\ v6 \subseteq {k \in Checks!Indices : v3[k].proc \in Proc}
      /\ v11 = 0 => v6 = {k \in Checks!Indices : v3[k].proc \in v8}
  BY <1>1 DEF Checks!ChecksInv, Checks!ProcsFound, Checks!Indices
<1>4. Checks!CallerChecked' /\ Checks!BudgetsFit' /\ Checks!FilesFit' /\ Checks!ProcsFound'
  BY <1>1 DEF Checks!ChecksInv, Checks!CallerChecked, Checks!BudgetsFit, Checks!FilesFit,
     Checks!ProcsFound, Checks!Indices
<1>5. Checks!TasksChecked'
  <2>1. CASE v4' = "budgets"
    <3>1. ok /\ UNCHANGED v3
      BY <1>1, <2>1
    <3>2. Checks!NamesOk'
      BY <3>1 DEF Checks!NamesOk, Checks!Indices
    <3> QED
      BY <1>3, <3>1, <3>2 DEF Checks!TasksChecked, Checks!Indices
  <2>2. CASE v4' = "rejected"
    BY <2>2 DEF Checks!TasksChecked
  <2> QED
    BY <1>1, <2>1, <2>2
<1>6. Checks!Added'
  <2>1. DOMAIN v7 = {}
    BY <1>1 DEF Checks!ChecksInv, Checks!Added
  <2>2. \A n : Checks!NeedsUpTo(v3, n)[0] = Checks!Nothing
    BY ChecksFacts, NeedsAdd
  <2> QED
    BY <1>1, <2>1, <2>2 DEF Checks!Added
<1>7. v4' = "rejected" /\ v11 = 0 => ~ Checks!Acceptable(v8)
  <2> SUFFICES ASSUME ~ ok, v11 = 0, Checks!Acceptable(v8) PROVE FALSE
    BY <1>1
  <2>1. Checks!NamesOk
    BY DEF Checks!Acceptable, Checks!NamesOk
  <2>2. v6 = Checks!Indices
    BY <1>3 DEF Checks!Acceptable
  <2>3. v3[1].user \in Registered /\ \A k \in Checks!Indices : v3[k].user = v3[1].user
    BY ChecksFacts DEF Checks!Acceptable
  <2> QED
    BY <2>1, <2>2, <2>3
<1> HIDE DEF ok
<1> QED
  BY <1>1, <1>2, <1>4, <1>5, <1>6, <1>7, CheckStep

\* The needs of a task are added to those of its namespace.
LEMMA AddStep == ASSUME Checks!ChecksInv, Checks!AddTask PROVE Checks!ChecksInv'
<1> DEFINE n == v3[v5 + 1].namespace
           need(m) == Checks!NeedsUpTo(v3, m)
<1>1. /\ v4 = "budgets" /\ v5 < Len(v3) /\ v5 + 1 \in 1..Len(v3) /\ Checks!Unchanged
      /\ UNCHANGED <<v1, v2, v3, v8, v9, v10, v11>> /\ v6' = v6
  BY ChecksFacts DEF Checks!AddTask, Checks!Unchanged, Checks!Rejected
<1>2. /\ \A m \in Namespace :
           IF m \in DOMAIN v7
           THEN /\ v7[m] = [needs |-> need(m)[v5], budget |-> v7[m].budget]
                /\ v7[m].budget \in v10.budgets[m]
                /\ \E k \in 1..v5 : v3[k].namespace = m
           ELSE need(m)[v5] = Checks!Nothing
      /\ \A k \in 1..v5 : v3[k].namespace # None => v3[k].namespace \in DOMAIN v7 /\ v3[k].given
  BY <1>1 DEF Checks!ChecksInv, Checks!Added
<1>3. \A m : need(m)[v5 + 1] =
        IF n = m THEN Checks!Plus(need(m)[v5], v3[v5 + 1].budget) ELSE need(m)[v5]
  <2>1. v5 + 1 - 1 = v5
    BY ChecksFacts
  <2> QED
    BY <1>1, <2>1, ChecksFacts, NeedsAdd
<1>4. /\ DOMAIN v7 \subseteq Namespace /\ v5 \in Nat /\ 1..(v5 + 1) = (1..v5) \cup {v5 + 1}
      /\ \A m \in Namespace : v9[m] \in v10.budgets[m]
      /\ v11 = 0 => \A m \in Namespace : v10.budgets[m] = {v9[m]}
  BY ChecksFacts DEF Checks!ChecksInv, Checks!Offered
<1>5. /\ v4' \in {"budgets", "rejected"} /\ v5' \in 0..Len(v3) /\ DOMAIN v7' \subseteq Namespace
  BY <1>1, <1>4, ChecksFacts DEF Checks!AddTask, Checks!Rejected
<1>6. Checks!TypeOK'
  BY <1>1, <1>5, ChecksFacts DEF Checks!TypeOK, Checks!Indices
<1>7. Checks!CallerChecked' /\ Checks!TasksChecked' /\ Checks!BudgetsFit' /\ Checks!FilesFit'
      /\ Checks!ProcsFound'
  BY <1>1, <1>5 DEF Checks!ChecksInv, Checks!CallerChecked, Checks!TasksChecked, Checks!BudgetsFit,
     Checks!FilesFit, Checks!ProcsFound, Checks!Indices, Checks!NamesOk
<1>8. n \in Namespace =>
        /\ Checks!Entry(n) = [needs |-> need(n)[v5], budget |-> Checks!Entry(n).budget]
        /\ Checks!Entry(n).budget \in v10.budgets[n]
  BY <1>2, <1>4 DEF Checks!Entry
<1>9. Checks!Added'
  <2>1. CASE n = None /\ v5' = v5 + 1 /\ v7' = v7 /\ v4' = v4
    <3>1. \A m \in Namespace : need(m)[v5 + 1] = need(m)[v5]
      BY <1>3, <2>1, ChecksAssumption
    <3>2. \A m \in Namespace :
            IF m \in DOMAIN v7
            THEN /\ v7[m] = [needs |-> need(m)[v5 + 1], budget |-> v7[m].budget]
                 /\ v7[m].budget \in v10.budgets[m]
                 /\ \E k \in 1..(v5 + 1) : v3[k].namespace = m
            ELSE need(m)[v5 + 1] = Checks!Nothing
      <4> HIDE DEF need
      <4> QED
        BY <1>2, <1>4, <3>1
    <3>3. \A k \in 1..(v5 + 1) : v3[k].namespace # None =>
            v3[k].namespace \in DOMAIN v7 /\ v3[k].given
      BY <1>2, <1>4, <2>1
    <3> QED
      BY <1>1, <2>1, <3>2, <3>3 DEF Checks!Added
  <2>2. CASE /\ n \in Namespace /\ v3[v5 + 1].given /\ v5' = v5 + 1 /\ v4' = v4
             /\ v7' = [m \in (DOMAIN v7) \cup {n} |->
                         IF m = n THEN Checks!Add(Checks!Entry(n), v3[v5 + 1].budget) ELSE v7[m]]
    <3>1. v7'[n] = [needs |-> need(n)[v5 + 1], budget |-> Checks!Entry(n).budget]
      BY <1>3, <1>8, <2>2 DEF Checks!Add
    <3>2. DOMAIN v7' = (DOMAIN v7) \cup {n} /\ \A m \in DOMAIN v7 : m # n => v7'[m] = v7[m]
      BY <2>2
    <3>3. ASSUME NEW m \in Namespace
          PROVE  IF m \in DOMAIN v7'
                 THEN /\ v7'[m] = [needs |-> need(m)[v5 + 1], budget |-> v7'[m].budget]
                      /\ v7'[m].budget \in v10.budgets[m]
                      /\ \E k \in 1..(v5 + 1) : v3[k].namespace = m
                 ELSE need(m)[v5 + 1] = Checks!Nothing
      <4>1. CASE m = n
        <5>1. v7'[n].budget = Checks!Entry(n).budget
          BY <3>1
        <5> QED
          BY <1>4, <1>8, <2>2, <3>1, <3>2, <4>1, <5>1
      <4>2. CASE m # n
        <5>1. need(m)[v5 + 1] = need(m)[v5]
          BY <1>3, <4>2
        <5> HIDE DEF need
        <5> QED
          BY <1>2, <1>4, <3>2, <4>2, <5>1
      <4> QED
        BY <4>1, <4>2
    <3>4. \A k \in 1..(v5 + 1) : v3[k].namespace # None =>
            v3[k].namespace \in DOMAIN v7' /\ v3[k].given
      BY <1>2, <1>4, <2>2, <3>2
    <3> HIDE DEF need
    <3> QED
      BY <1>1, <2>2, <3>3, <3>4 DEF Checks!Added, need
  <2>3. CASE v4' = "rejected"
    BY <2>3 DEF Checks!Added
  <2> QED
    BY <1>1, <2>1, <2>2, <2>3 DEF Checks!AddTask, Checks!Rejected
<1>10. v4' = "rejected" /\ v11 = 0 => ~ Checks!Acceptable(v8)
  <2> SUFFICES ASSUME v4' = "rejected", v11 = 0, Checks!Acceptable(v8) PROVE FALSE
    OBVIOUS
  <2>1. /\ n # None
        /\ ~ v3[v5 + 1].given \/ n \notin Namespace
           \/ Checks!Exceeds(v3[v5 + 1].budget, Checks!Entry(n).budget)
    BY <1>1 DEF Checks!AddTask, Checks!Rejected
  <2>2. /\ n \in Namespace /\ v3[v5 + 1].given
        /\ \E b \in v10.budgets[n] : ~ Checks!Exceeds(Checks!Needs(n), b)
    BY <1>1, <2>1 DEF Checks!Acceptable, Checks!Indices, Checks!In
  <2>3. Checks!Entry(n).budget = v9[n] /\ ~ Checks!Exceeds(Checks!Needs(n), v9[n])
    BY <1>4, <1>8, <2>2
  <2>4. PICK x \in Resources, y \in Resources :
          /\ x = Checks!Needs(n) /\ y = v3[v5 + 1].budget
          /\ x.vcpus >= y.vcpus /\ x.memory >= y.memory
    BY <1>1, ChecksFacts, NeedsAtLeast DEF Checks!Needs
  <2>5. PICK z \in Resources : z = v9[n]
    BY <2>2, ChecksAssumption DEF Checks!ChecksInv, Checks!ChecksTypes, Resources
  <2> QED
    BY <2>1, <2>2, <2>3, <2>4, <2>5 DEF Checks!Exceeds, Resources
<1> QED
  BY <1>1, <1>6, <1>7, <1>9, <1>10, CheckStep

\* The tasks of each namespace are compared with its budget together.
LEMMA CombinedStep == ASSUME Checks!ChecksInv, Checks!CheckCombined PROVE Checks!ChecksInv'
<1> DEFINE over == \E n \in DOMAIN v7 : Checks!Exceeds(v7[n].needs, v7[n].budget)
<1>1. /\ v4 = "budgets" /\ v5 = Len(v3) /\ Checks!Unchanged
      /\ UNCHANGED <<v1, v2, v3, v8, v9, v10, v11>> /\ UNCHANGED <<v6, v7>>
      /\ (over /\ v4' = "rejected" /\ v5' = v5) \/ (~ over /\ v4' = "io" /\ v5' = 0)
  BY DEF Checks!CheckCombined, Checks!Unchanged, Checks!Rejected, Checks!Onto
<1>2. /\ \A n \in DOMAIN v7 : /\ n \in Namespace /\ v7[n].needs = Checks!Needs(n)
                              /\ v7[n].budget \in v10.budgets[n]
                              /\ \E k \in Checks!Indices : v3[k].namespace = n
      /\ \A k \in Checks!Indices : v3[k].namespace # None =>
           v3[k].namespace \in DOMAIN v7 /\ v3[k].given
  <2>1. DOMAIN v7 \subseteq Namespace
    BY ChecksFacts
  <2>2. ASSUME NEW n \in DOMAIN v7
        PROVE  v7[n] = [needs |-> Checks!Needs(n), budget |-> v7[n].budget]
               /\ v7[n].budget \in v10.budgets[n] /\ \E k \in 1..Len(v3) : v3[k].namespace = n
    BY <1>1, <2>1 DEF Checks!ChecksInv, Checks!Added, Checks!Needs
  <2>3. \A k \in Checks!Indices : v3[k].namespace # None =>
           v3[k].namespace \in DOMAIN v7 /\ v3[k].given
    BY <1>1 DEF Checks!ChecksInv, Checks!Added, Checks!Indices
  <2>4. \A n \in DOMAIN v7 : v7[n].needs = Checks!Needs(n)
    BY <2>2
  <2> QED
    BY <2>1, <2>2, <2>3, <2>4 DEF Checks!Indices
<1>3. Checks!TypeOK'
  BY <1>1, ChecksFacts DEF Checks!TypeOK, Checks!Indices
<1>4. Checks!CallerChecked' /\ Checks!TasksChecked' /\ Checks!FilesFit' /\ Checks!ProcsFound'
      /\ Checks!Added'
  BY <1>1 DEF Checks!ChecksInv, Checks!CallerChecked, Checks!TasksChecked, Checks!FilesFit,
     Checks!ProcsFound, Checks!Added, Checks!Indices, Checks!NamesOk
<1>5. Checks!BudgetsFit'
  <2>1. CASE v4' = "rejected"
    BY <2>1 DEF Checks!BudgetsFit
  <2>2. CASE v4' = "io"
    <3>1. ASSUME NEW k \in Checks!Indices, v3[k].namespace # None
          PROVE  /\ v3[k].namespace \in Namespace /\ v3[k].given
                 /\ \E b \in v10.budgets[v3[k].namespace] :
                      ~ Checks!Exceeds(Checks!Needs(v3[k].namespace), b)
      BY <1>1, <1>2, <2>2, <3>1
    <3> QED
      BY <1>1, <3>1 DEF Checks!BudgetsFit, Checks!Indices, Checks!Needs
  <2> QED
    BY <1>1, <2>1, <2>2
<1>6. v4' = "rejected" /\ v11 = 0 => ~ Checks!Acceptable(v8)
  <2> SUFFICES ASSUME v4' = "rejected", v11 = 0, Checks!Acceptable(v8) PROVE FALSE
    OBVIOUS
  <2>1. PICK n \in DOMAIN v7 : Checks!Exceeds(v7[n].needs, v7[n].budget)
    BY <1>1
  <2>2. PICK k \in Checks!Indices : v3[k].namespace = n
    BY <1>2
  <2>3. v7[n].budget = v9[n] /\ v10.budgets[n] = {v9[n]} /\ n # None
    BY <1>2, ChecksAssumption DEF Checks!ChecksInv, Checks!Offered
  <2>4. \E b \in v10.budgets[n] : ~ Checks!Exceeds(Checks!Needs(n), b)
    BY <2>2, <2>3 DEF Checks!Acceptable
  <2> QED
    BY <1>2, <2>1, <2>3, <2>4
<1> HIDE DEF over
<1> QED
  BY <1>1, <1>3, <1>4, <1>5, <1>6, CheckStep

\* Inputs and outputs are compared with the descriptors.
LEMMA FilesStep == ASSUME Checks!ChecksInv, Checks!CheckInputsOutputs PROVE Checks!ChecksInv'
<1> DEFINE ok == \A k \in Checks!Indices : v3[k].io
<1>1. /\ v4 = "io" /\ Checks!Unchanged
      /\ UNCHANGED <<v1, v2, v3, v8, v9, v10, v11>> /\ UNCHANGED <<v6, v7>>
      /\ (ok /\ v4' = "accepted" /\ v5' = 0) \/ (~ ok /\ v4' = "rejected" /\ v5' = v5)
  BY DEF Checks!CheckInputsOutputs, Checks!Unchanged, Checks!Rejected, Checks!Onto
<1>2. Checks!TypeOK'
  BY <1>1, ChecksFacts DEF Checks!TypeOK, Checks!Indices
<1>3. Checks!CallerChecked' /\ Checks!TasksChecked' /\ Checks!ProcsFound' /\ Checks!Added'
  BY <1>1 DEF Checks!ChecksInv, Checks!CallerChecked, Checks!TasksChecked, Checks!ProcsFound,
     Checks!Added, Checks!Indices, Checks!NamesOk
<1>4. Checks!BudgetsFit' /\ Checks!FilesFit'
  BY <1>1 DEF Checks!ChecksInv, Checks!BudgetsFit, Checks!FilesFit, Checks!Indices, Checks!Needs
<1>5. v4' = "rejected" => ~ Checks!Acceptable(v8)
  BY <1>1 DEF Checks!Acceptable
<1> HIDE DEF ok
<1> QED
  BY <1>1, <1>2, <1>3, <1>4, <1>5, CheckStep

\* The budget of a namespace is updated: what fitted one it had still did.
LEMMA BudgetStep ==
    ASSUME Checks!ChecksInv, NEW n \in Namespace, NEW b \in Budgets, Checks!UpdateBudget(n, b)
    PROVE  Checks!ChecksInv'
<1>1. /\ v4 \notin {"accepted", "rejected"} /\ UNCHANGED <<v1, v2, v3, v4, v5, v6, v7, v8>>
      /\ v9' = [v9 EXCEPT ![n] = b] /\ v11' = v11 + 1
      /\ v10' = [v10 EXCEPT !.budgets = [v10.budgets EXCEPT ![n] = v10.budgets[n] \cup {b}]]
  BY DEF Checks!UpdateBudget, Checks!Checking
<1>2. PICK had \in [Namespace -> SUBSET Budgets] : v10 = [procs |-> Proc, budgets |-> had]
  BY DEF Checks!ChecksInv, Checks!ChecksTypes
<1>3. v10' = [procs |-> Proc, budgets |-> [had EXCEPT ![n] = had[n] \cup {b}]]
  BY <1>1, <1>2
<1>4. /\ v10'.budgets \in [Namespace -> SUBSET Budgets] /\ v10' = [procs |-> Proc, budgets |-> v10'.budgets]
      /\ \A m \in Namespace : v10.budgets[m] \subseteq v10'.budgets[m]
      /\ b \in v10'.budgets[n]
  BY <1>2, <1>3
<1>5. v11 \in Nat /\ v11' \in Nat \ {0}
  BY <1>1 DEF Checks!ChecksInv, Checks!ChecksTypes
<1>6. Checks!ChecksTypes'
  BY <1>1, <1>4, <1>5 DEF Checks!ChecksInv, Checks!ChecksTypes, Checks!TypeOK, Checks!Indices
<1>7. Checks!Offered'
  <2>1. v9 \in [Namespace -> Budgets] /\ \A m \in Namespace : v9[m] \in v10.budgets[m]
    BY DEF Checks!ChecksInv, Checks!ChecksTypes, Checks!Offered
  <2> QED
    BY <1>1, <1>4, <1>5, <2>1 DEF Checks!Offered
<1>8. Checks!CallerChecked' /\ Checks!ProcsFound' /\ Checks!TasksChecked' /\ Checks!FilesFit'
  BY <1>1, <1>5 DEF Checks!ChecksInv, Checks!CallerChecked, Checks!ProcsFound,
     Checks!TasksChecked, Checks!FilesFit, Checks!Indices, Checks!NamesOk
<1>9. Checks!Added'
  BY <1>1, <1>4 DEF Checks!ChecksInv, Checks!Added
<1>10. Checks!BudgetsFit'
  BY <1>1, <1>4 DEF Checks!ChecksInv, Checks!BudgetsFit, Checks!Indices, Checks!Needs
<1>11. Checks!RejectedRightly'
  BY <1>1 DEF Checks!RejectedRightly
<1> QED
  BY <1>6, <1>7, <1>8, <1>9, <1>10, <1>11 DEF Checks!ChecksInv

\* A processor is undeployed: it was there while the batch was checked.
LEMMA UndeployStep ==
    ASSUME Checks!ChecksInv, NEW p \in Proc, Checks!Undeploy(p) PROVE Checks!ChecksInv'
<1>1. /\ v4 \notin {"accepted", "rejected"} /\ UNCHANGED <<v1, v2, v3, v4, v5, v6, v7, v9, v10>>
      /\ v8' = v8 \ {p} /\ v11' = v11 + 1
  BY DEF Checks!Undeploy, Checks!Checking
<1>2. v11 \in Nat /\ v11' \in Nat \ {0}
  BY <1>1 DEF Checks!ChecksInv, Checks!ChecksTypes
<1>3. Checks!ChecksTypes' /\ Checks!Offered'
  BY <1>1, <1>2 DEF Checks!ChecksInv, Checks!ChecksTypes, Checks!TypeOK, Checks!Indices, Checks!Offered
<1>4. Checks!CallerChecked' /\ Checks!ProcsFound' /\ Checks!TasksChecked' /\ Checks!FilesFit'
  BY <1>1, <1>2 DEF Checks!ChecksInv, Checks!CallerChecked, Checks!ProcsFound,
     Checks!TasksChecked, Checks!FilesFit, Checks!Indices, Checks!NamesOk
<1>5. Checks!Added' /\ Checks!BudgetsFit'
  BY <1>1 DEF Checks!ChecksInv, Checks!Added, Checks!BudgetsFit, Checks!Indices, Checks!Needs
<1>6. Checks!RejectedRightly'
  BY <1>1 DEF Checks!RejectedRightly
<1> QED
  BY <1>3, <1>4, <1>5, <1>6 DEF Checks!ChecksInv

LEMMA ChecksNext == ASSUME Checks!ChecksInv, [Checks!Next]_(Checks!vars) PROVE Checks!ChecksInv'
<1>1. CASE UNCHANGED Checks!vars
  <2>1. UNCHANGED <<v1, v2, v3, v4, v5, v6, v7, v8, v9, v10, v11>>
    BY <1>1 DEF Checks!vars
  <2>2. Checks!RejectedRightly'
    BY <2>1, AcceptableStays DEF Checks!ChecksInv, Checks!RejectedRightly
  <2>3. Checks!Unchanged
    BY <2>1 DEF Checks!Unchanged
  <2>4. Checks!TypeOK' /\ Checks!CallerChecked' /\ Checks!ProcsFound' /\ Checks!TasksChecked'
        /\ Checks!Added' /\ Checks!BudgetsFit' /\ Checks!FilesFit'
    BY <2>1 DEF Checks!ChecksInv, Checks!ChecksTypes, Checks!TypeOK, Checks!CallerChecked,
       Checks!ProcsFound, Checks!TasksChecked, Checks!Added, Checks!BudgetsFit, Checks!FilesFit,
       Checks!Indices, Checks!NamesOk, Checks!Needs
  <2>5. v4' = "rejected" /\ v11 = 0 => ~ Checks!Acceptable(v8)
    BY <2>1 DEF Checks!ChecksInv, Checks!RejectedRightly
  <2> QED
    BY <2>3, <2>4, <2>5, CheckStep
<1>2. CASE Checks!Next
  BY <1>2, CallerStep, ProcStep, TasksStep, AddStep, CombinedStep, FilesStep, BudgetStep,
     UndeployStep DEF Checks!Next
<1> QED
  BY <1>1, <1>2

\* What has been checked is what submit asks.
LEMMA ChecksAgree == Checks!ChecksInv => Checks!AcceptedFits
<1> SUFFICES ASSUME Checks!ChecksInv PROVE Checks!AcceptedFits
  OBVIOUS
<1>1. ASSUME v4 = "accepted" PROVE Checks!Acceptable(v10.procs)
  <2>1. /\ Checks!NamesOk /\ v3[1].user \in Registered
        /\ \A k \in Checks!Indices : v3[k].proc \in Proc /\ v3[k].user = v3[1].user
    BY <1>1 DEF Checks!ChecksInv, Checks!TasksChecked
  <2>2. \A k \in Checks!Indices : v3[k].namespace # None =>
          /\ v3[k].namespace \in Namespace /\ v3[k].given
          /\ \E b \in v10.budgets[v3[k].namespace] :
               ~ Checks!Exceeds(Checks!Needs(v3[k].namespace), b)
    BY <1>1 DEF Checks!ChecksInv, Checks!BudgetsFit
  <2>3. v1 = "rest" => v3[1].user = v2
    BY <1>1, ChecksFacts DEF Checks!ChecksInv, Checks!CallerChecked
  <2>4. (\A k \in Checks!Indices : v3[k].io) /\ v10.procs = Proc
    BY <1>1, ChecksFacts DEF Checks!ChecksInv, Checks!FilesFit
  <2>5. /\ Len(v3) > 1 => None \notin {v3[k].name : k \in Checks!Indices}
        /\ \A j, k \in Checks!Indices : v3[j].name = v3[k].name => j = k
    BY <2>1 DEF Checks!NamesOk
  <2> QED
    BY <2>1, <2>2, <2>3, <2>4, <2>5 DEF Checks!Acceptable, Checks!In
<1> QED
  BY <1>1 DEF Checks!AcceptedFits, Checks!ChecksInv, Checks!RejectedRightly

\* A batch is accepted only if all of it is acceptable, with budgets its namespaces had
\* meanwhile; and one that is acceptable is refused only if something changed.
THEOREM ChecksCorrect == Spec => []AcceptedFits
<1> DEFINE Inv == part = "checks" => Checks!ChecksInv
<1>1. Init => Inv
  BY ChecksInit DEF Init
<1>2. Inv /\ [Next]_vars => Inv'
  BY OnePart, ChecksNext
<1>3. Inv => AcceptedFits
  BY ChecksAgree DEF AcceptedFits
<1> QED
  BY <1>1, <1>2, <1>3, PTL DEF Spec

-----------------------------------------------------------------------------
(* The types of all parts *)

PartsInv ==
    /\ part = "network" => Network!NetworkInv
    /\ part = "barrier" => Barrier!BarrierInv /\ Barrier!Counted
    /\ part = "transport" => Transport!TransportInv /\ Transport!Received
    /\ part = "deployment" => Deployment!DeploymentInv
    /\ part = "aws" => Aws!AwsInv
    /\ part = "gateway" => Gate!GatewayInv
    /\ part = "keystore" => Keystore!KeystoreInv
    /\ part = "checks" => Checks!ChecksInv

\* The variables of each part have their types.
THEOREM TypesCorrect == Spec => []TypeOK
<1>0. Network!Parameters /\ Transport!Parameters /\ MaxAttempts \in Nat
  BY NetworkParameters, ServicesAssumption DEF Transport!Parameters
<1>1. Init => PartsInv
  BY <1>0, Network!NetworkInit, Barrier!BarrierInit, Barrier!BarrierTyped,
     Transport!TransportInit, Transport!TransportTyped, DeploymentStart, AwsStart, GatewayStart,
     KeystoreStart, ChecksInit DEF Init, PartsInv
<1>2. PartsInv /\ [Next]_vars => PartsInv'
  BY <1>0, OnePart, Network!NetworkNext, Barrier!BarrierNext, Barrier!CountedNext,
     Transport!TransportNext, Transport!ReceivedNext, DeploymentGoesOn, AwsGoesOn,
     GatewayGoesOn, KeystoreGoesOn, ChecksNext DEF PartsInv
<1>3. PartsInv => TypeOK
  <2> SUFFICES ASSUME PartsInv PROVE TypeOK
    OBVIOUS
  <2>1. part = "network" => Network!TypeOK
    BY <1>0, Network!NetworkAgrees DEF PartsInv
  <2>2. part = "barrier" => Barrier!TypeOK
    BY <1>0, Barrier!BarrierTyped DEF PartsInv
  <2>3. part = "transport" => Transport!TypeOK
    BY <1>0, Transport!TransportTyped DEF PartsInv
  <2>4. part = "deployment" => Deployment!TypeOK
    BY DEF PartsInv, Deployment!DeploymentInv, Deployment!DeploymentTypes
  <2>5. part = "aws" => Aws!TypeOK
    BY DEF PartsInv, Aws!AwsInv, Aws!AwsTypes
  <2>6. part = "gateway" => Gate!TypeOK
    BY DEF PartsInv, Gate!GatewayInv, Gate!GatewayTypes
  <2>7. (part = "keystore" => Keystore!TypeOK) /\ (part = "checks" => Checks!TypeOK)
    BY DEF PartsInv, Keystore!KeystoreInv, Checks!ChecksInv, Checks!ChecksTypes
  <2> QED
    BY <2>1, <2>2, <2>3, <2>4, <2>5, <2>6, <2>7 DEF TypeOK
<1> QED
  BY <1>1, <1>2, <1>3, PTL DEF Spec
================================================================================
