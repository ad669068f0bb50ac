------------------------ MODULE JobLifecycle_proofs ------------------------
(* Proofs about JobLifecycle, for any jobs and batches. *)
EXTENDS JobLifecycle, FiniteSetTheorems, TLAPS

\* Batches share no job.
LEMMA BatchesDisjoint ==
    ASSUME NEW b \in Batch, NEW c \in Batch, NEW j \in b, j \in c
    PROVE  b = c
  BY BatchAssumption

\* The members of a batch are jobs.
LEMMA MembersAreJobs == ASSUME NEW b \in Batch PROVE b \in SUBSET Job
  BY BatchAssumption

----------------------------------------------------------------------------
\* Types

\* A submission that moves on stays typed.
LEMMA GotoType ==
    ASSUME TypeOK, NEW b \in Batch, NEW phase \in SubPhase \ {"record"},
           NEW left \in SUBSET Job,
           Goto(b, phase, left)
    PROVE  sub' \in [Batch -> SubRecord]
  BY DEF TypeOK, Goto, SubRecord

\* The fields of a submission, from the types.
LEMMA SubFields ==
    ASSUME TypeOK, NEW b \in Batch
    PROVE  /\ sub[b].phase \in SubPhase /\ sub[b].left \in SUBSET Job /\ sub[b].cur \in Job \cup {NoJob}
           /\ sub[b].phase = "record" => sub[b].cur \in Job
  BY DEF TypeOK, SubRecord

\* A cancel worker that moves on stays typed.
LEMMA StepType ==
    ASSUME TypeOK, NEW w \in Thread \X Job, NEW phase \in CancelPhase, Step(w, phase)
    PROVE  cw' \in [Thread \X Job -> CancelRecord]
  BY DEF TypeOK, Step, CancelRecord

\* So does one that reads the record of its job.
LEMMA ReadRunnerType ==
    ASSUME TypeOK, NEW w \in Thread \X Job, ReadRunner(w)
    PROVE  cw' \in [Thread \X Job -> CancelRecord]
<1> DEFINE phase == IF w[2] \in hasContainer THEN "interrupt" ELSE "done"
           iid == w[2] \in hasIdentity
<1>1. phase \in CancelPhase /\ iid \in BOOLEAN
  BY DEF CancelPhase
<1>2. cw' = [cw EXCEPT ![w].phase = phase, ![w].iid = iid]
  BY DEF ReadRunner
<1> HIDE DEF phase, iid
<1>3. cw' = [[cw EXCEPT ![w] = [cw[w] EXCEPT !.phase = phase]]
                EXCEPT ![w] = [[cw[w] EXCEPT !.phase = phase] EXCEPT !.iid = iid]]
  BY <1>2 DEF TypeOK
<1> DEFINE marked == [cw[w] EXCEPT !.phase = phase]
           read == [marked EXCEPT !.iid = iid]
<1>4. marked \in CancelRecord
  BY <1>1 DEF TypeOK, CancelRecord
<1>5. cw' = [[cw EXCEPT ![w] = marked] EXCEPT ![w] = read]
  BY <1>3
<1> HIDE DEF marked
<1>6. read \in CancelRecord
  BY <1>1, <1>4 DEF CancelRecord
<1> HIDE DEF read
<1> QED
  BY <1>4, <1>5, <1>6 DEF TypeOK

\* Killing containers keeps the types of containers and runners.
LEMMA KillType ==
    ASSUME TypeOK, NEW S \in SUBSET Job, Kill(S)
    PROVE  /\ cont' \in [Job -> {"none", "up", "down", "gone"}]
           /\ proc' \in [Job -> {"off", "start", "init", "run", "ok", "bad", "stop", "quit"}]
           /\ sent' = sent
  BY DEF TypeOK, Kill

\* A handler that is done is typed.
LEMMA IdleHdlType == IdleHdl \in HdlRecord /\ IdleHdl.phase = "idle"
  BY DEF IdleHdl, HdlRecord, HdlPhase

\* An answer, or its loss, keeps the type of the requests.
LEMMA ReplyType ==
    ASSUME TypeOK, NEW j \in Job, NEW l, Reply(j, l)
    PROVE  req' \in [Job -> Pushed \cup {"none", "handshake"}]
  BY DEF TypeOK, Reply

\* A runner that goes on after its handshake stays typed.
LEMMA ProceedType ==
    ASSUME TypeOK, NEW j \in Job, NEW l, NEW p \in {"init", "quit"}, Proceed(j, l, p)
    PROVE  proc' \in [Job -> {"off", "start", "init", "run", "ok", "bad", "stop", "quit"}]
  BY DEF TypeOK, Proceed

\* Taking a request from the queue keeps its type.
LEMMA TakeType ==
    ASSUME TypeOK, NEW j \in Job, NEW m, NEW l, Take(j, m, l)
    PROVE  late' \subseteq Job \X (Pushed \cup {"handshake"})
  BY DEF TypeOK, Take

\* Every step keeps every variable in its range.
LEMMA TypeStep == ASSUME TypeOK, [Next]_vars PROVE TypeOK'
<1>1. ASSUME NEW b \in Batch, Prepare(b) PROVE TypeOK'
  <2>1. CASE reserved' = reserved \cup b /\ Goto(b, "ready", {})
    BY <1>1, <2>1, GotoType, MembersAreJobs DEF Prepare, SubPhase, TypeOK, dbVars, nodeVars,
       runnerVars, msgVars, taskVars
  <2>2. ASSUME NEW S \in SUBSET Job, reserved' = reserved \cup S /\ Goto(b, "rejected",
     {}) PROVE TypeOK'
    <3>1. sub' \in [Batch -> SubRecord]
      BY <2>2, GotoType DEF SubPhase
    <3>2. reserved' \subseteq Job
      BY <2>2 DEF TypeOK
    <3> QED
      BY <1>1, <3>1, <3>2 DEF Prepare, TypeOK, dbVars, runnerVars, msgVars
  <2> QED
    BY <1>1, <2>1, <2>2, MembersAreJobs DEF Prepare
<1>2. ASSUME NEW b \in Batch, CreateRecords(b) PROVE TypeOK'
  BY <1>2, GotoType, MembersAreJobs DEF CreateRecords, SubPhase, Active, TypeOK, dbVars, nodeVars,
     runnerVars, msgVars, taskVars
<1>3. ASSUME NEW b \in Batch, NEW j \in b, StartContainer(b, j) PROVE TypeOK'
  BY <1>3, SubFields, MembersAreJobs DEF StartContainer, SubPhase, SubRecord, TypeOK, dbVars,
     nodeVars, runnerVars, msgVars, taskVars
<1>4. ASSUME NEW b \in Batch, RecordContainer(b) PROVE TypeOK'
  BY <1>4, GotoType, SubFields DEF RecordContainer, SubPhase, TypeOK, dbVars, nodeVars,
     runnerVars, msgVars, taskVars
<1>5. ASSUME NEW b \in Batch, LaunchFails(b) PROVE TypeOK'
  BY <1>5, GotoType, MembersAreJobs DEF LaunchFails, SubPhase, TypeOK, dbVars, nodeVars,
     runnerVars, msgVars, taskVars
<1>6. ASSUME NEW b \in Batch, NEW j \in b, PurgeMember(b, j) PROVE TypeOK'
  BY <1>6, GotoType, KillType, SubFields, MembersAreJobs DEF PurgeMember, SubPhase, runnerVars,
     TypeOK, dbVars, nodeVars, runnerVars, msgVars, taskVars
<1>7. ASSUME NEW b \in Batch, CommitFailed(b) PROVE TypeOK'
  BY <1>7, GotoType, MembersAreJobs DEF CommitFailed, SubPhase, Terminal, TypeOK, dbVars,
     nodeVars, runnerVars, msgVars, taskVars
<1>8. ASSUME NEW b \in Batch, ReleaseFailed(b) PROVE TypeOK'
  BY <1>8, GotoType, MembersAreJobs DEF ReleaseFailed, SubPhase, TypeOK, dbVars, nodeVars,
     runnerVars, msgVars, taskVars
<1>9. ASSUME NEW j \in Job, SendHandshake(j) PROVE TypeOK'
  BY <1>9 DEF SendHandshake, TypeOK, dbVars, nodeVars, runnerVars, msgVars, taskVars
<1>10. ASSUME NEW j \in Job, SendStatus(j) PROVE TypeOK'
  BY <1>10 DEF SendStatus, Local, Pushed, TypeOK, dbVars, nodeVars, runnerVars, msgVars, taskVars
<1>11. ASSUME NEW j \in Job, TimeOut(j) PROVE TypeOK'
  BY <1>11 DEF TimeOut, TypeOK, dbVars, nodeVars, runnerVars, msgVars, taskVars
<1>12. ASSUME NEW j \in Job, GiveUp(j) PROVE TypeOK'
  BY <1>12 DEF GiveUp, TypeOK, dbVars, nodeVars, runnerVars, msgVars, taskVars
<1>13. ASSUME NEW j \in Job, Work(j) PROVE TypeOK'
  BY <1>13 DEF Work, TypeOK, dbVars, nodeVars, runnerVars, msgVars, taskVars
<1>14. ASSUME NEW j \in Job, Exit(j) PROVE TypeOK'
  BY <1>14, KillType DEF Exit, TypeOK, dbVars, nodeVars, runnerVars, msgVars, taskVars
<1>15. ASSUME NEW j \in Job, Die(j) PROVE TypeOK'
  BY <1>15, KillType DEF Die, TypeOK, dbVars, nodeVars, runnerVars, msgVars, taskVars
<1>16. ASSUME NEW j \in Job, NEW l \in BOOLEAN, HandshakeRead(j, l) PROVE TypeOK'
  <2>1. late' \subseteq Job \X (Pushed \cup {"handshake"})
    BY <1>16, TakeType DEF HandshakeRead
  <2>2. req' \in [Job -> Pushed \cup {"none", "handshake"}]
    BY <1>16, ReplyType DEF HandshakeRead, TypeOK
  <2>3. proc' \in [Job -> {"off", "start", "init", "run", "ok", "bad", "stop", "quit"}]
    BY <1>16, ProceedType DEF HandshakeRead, TypeOK
  <2>4. hdl' \in HdlRecord
    <3>1. hdl' = hdl \/ hdl' = [IdleHdl EXCEPT !.phase = "read", !.job = j, !.req = "handshake",
       !.late = l]
      BY <1>16 DEF HandshakeRead
    <3>2. [IdleHdl EXCEPT !.phase = "read", !.job = j, !.req = "handshake",
       !.late = l] \in HdlRecord
      BY DEF IdleHdl, HdlRecord, HdlPhase
    <3> QED
      BY <3>1, <3>2 DEF TypeOK
  <2> QED
    BY <1>16, <2>1, <2>2, <2>3, <2>4 DEF HandshakeRead, TypeOK, dbVars, nodeVars
<1>17. ASSUME NEW j \in Job, NEW s \in Pushed, NEW l \in BOOLEAN, StatusRead(j, s, l) PROVE TypeOK'
  <2>1. late' \subseteq Job \X (Pushed \cup {"handshake"})
    BY <1>17, TakeType DEF StatusRead
  <2>2. req' \in [Job -> Pushed \cup {"none", "handshake"}]
    BY <1>17, ReplyType DEF StatusRead, TypeOK
  <2>3. hdl' \in HdlRecord
    <3>1. hdl' = hdl \/ hdl' = [IdleHdl EXCEPT !.phase = "read", !.job = j, !.req = s, !.late = l]
      BY <1>17 DEF StatusRead
    <3>2. [IdleHdl EXCEPT !.phase = "read", !.job = j, !.req = s, !.late = l] \in HdlRecord
      BY DEF IdleHdl, HdlRecord, HdlPhase
    <3> QED
      BY <3>1, <3>2 DEF TypeOK
  <2> QED
    BY <1>17, <2>1, <2>2, <2>3 DEF StatusRead, TypeOK, dbVars, nodeVars, runnerVars
<1>18. ASSUME HandshakeCommit PROVE TypeOK'
  BY <1>18, ReplyType, ProceedType, IdleHdlType DEF HandshakeCommit, HdlRecord, HdlPhase, TypeOK,
     dbVars, nodeVars, runnerVars, msgVars, taskVars
<1>19. ASSUME HandshakeReply PROVE TypeOK'
  <2>1. hdl.job \in Job
    BY <1>19 DEF HandshakeReply, TypeOK, HdlRecord
  <2>2. req' \in [Job -> Pushed \cup {"none", "handshake"}]
    BY <1>19, <2>1, ReplyType DEF HandshakeReply
  <2>3. proc' \in [Job -> {"off", "start", "init", "run", "ok", "bad", "stop", "quit"}]
    BY <1>19, <2>1, ProceedType DEF HandshakeReply
  <2> QED
    BY <1>19, <2>1, <2>2, <2>3, IdleHdlType DEF HandshakeReply, TypeOK, dbVars
<1>20. ASSUME StatusCommit PROVE TypeOK'
  BY <1>20, ReplyType, IdleHdlType DEF StatusCommit, HdlRecord, HdlPhase, Pushed, Active,
     Terminal, TypeOK, dbVars, nodeVars, runnerVars, msgVars, taskVars
<1>21. ASSUME StatusCollect PROVE TypeOK'
  <2> DEFINE kill == IF hdl.req = "failed" THEN {k \in Siblings(hdl.job) : state[k] \in Active} \ Cancelling ELSE {}
             clean == kw[hdl.job].phase = "none"
  <2>1. kill \in SUBSET Job /\ clean \in BOOLEAN
    BY BatchAssumption DEF Siblings
  <2>2. hdl' = [hdl EXCEPT !.phase = "release", !.kill = kill, !.clean = clean] \/ hdl' = IdleHdl
    BY <1>21 DEF StatusCollect
  <2>3. kw' = [kw EXCEPT ![hdl.job].phase = "placeholder"] \/ kw' = kw
    BY <1>21 DEF StatusCollect
  <2>4. ASSUME NEW w \in Thread \X Job
        PROVE  [NoCancel EXCEPT !.phase = "placeholder",
           !.addr = w[2] \in hasIdentity] \in CancelRecord
    <3> DEFINE addr == w[2] \in hasIdentity
    <3>1. addr \in BOOLEAN
      OBVIOUS
    <3> HIDE DEF addr
    <3>2. [NoCancel EXCEPT !.phase = "placeholder", !.addr = addr] \in CancelRecord
      BY <3>1 DEF NoCancel, CancelRecord, CancelPhase
    <3> QED
      BY <3>2 DEF addr
  <2>5. cw' = [w \in Thread \X Job |->
                 IF w[1] = "p2p" /\ w[2] \in kill
                 THEN [NoCancel EXCEPT !.phase = "placeholder", !.addr = w[2] \in hasIdentity]
                 ELSE cw[w]] \/ cw' = cw
    BY <1>21 DEF StatusCollect
  <2> HIDE DEF kill, clean
  <2>6. hdl' \in HdlRecord
    <3>1. hdl.phase = "collect" /\ hdl \in HdlRecord
      BY <1>21 DEF StatusCollect, TypeOK
    <3>2. [hdl EXCEPT !.phase = "release", !.kill = kill, !.clean = clean] \in HdlRecord
      BY <3>1, <2>1 DEF HdlRecord, HdlPhase
    <3> QED
      BY <3>2, <2>2, IdleHdlType
  <2>7. kw' \in [Job -> CleanupRecord]
    BY <2>3 DEF TypeOK, CleanupRecord, CleanupPhase
  <2>8. cw' \in [Thread \X Job -> CancelRecord]
    <3>1. cw \in [Thread \X Job -> CancelRecord]
      BY DEF TypeOK
    <3>2. CASE cw' = cw
      BY <3>1, <3>2
    <3>3. CASE cw' = [w \in Thread \X Job |->
                        IF w[1] = "p2p" /\ w[2] \in kill
                        THEN [NoCancel EXCEPT !.phase = "placeholder",
                           !.addr = w[2] \in hasIdentity]
                        ELSE cw[w]]
      BY <3>1, <3>3, <2>4, Zenon
    <3> QED
      BY <2>5, <3>2, <3>3
  <2> QED
    BY <1>21, <2>6, <2>7, <2>8 DEF StatusCollect, TypeOK, dbVars, nodeVars, runnerVars, msgVars
<1>22. ASSUME StatusRelease PROVE TypeOK'
  <2>1. hdl.job \in Job
    BY <1>22 DEF StatusRelease, TypeOK, HdlRecord
  <2>2. kw' \in [Job -> CleanupRecord]
    BY SMTT(30), <1>22, <2>1 DEF StatusRelease, TypeOK, CleanupRecord, CleanupPhase
  <2>3. ASSUME NEW w \in Thread \X Job
        PROVE  cw[w] \in CancelRecord /\ [cw[w] EXCEPT !.phase = "new"] \in CancelRecord
    BY DEF TypeOK, CancelRecord, CancelPhase
  <2>4. cw' \in [Thread \X Job -> CancelRecord]
    BY <1>22, <2>3 DEF StatusRelease
  <2> QED
    BY <1>22, <2>1, <2>2, <2>4, ReplyType, IdleHdlType DEF StatusRelease, TypeOK, dbVars, runnerVars
<1>23. ASSUME NEW w \in Thread \X Job, MarkRead(w) PROVE TypeOK'
  BY <1>23, StepType, ReadRunnerType DEF MarkRead, CancelPhase, TypeOK, dbVars, nodeVars,
     runnerVars, msgVars, taskVars
<1>24. ASSUME NEW w \in Thread \X Job, MarkCommit(w) PROVE TypeOK'
  BY <1>24, StepType, ReadRunnerType DEF MarkCommit, CancelPhase, Terminal, TypeOK, dbVars,
     nodeVars, runnerVars, msgVars, taskVars
<1>25. ASSUME NEW w \in Thread \X Job, Interrupt(w) PROVE TypeOK'
  BY <1>25, StepType DEF Interrupt, CancelPhase, TypeOK, dbVars, nodeVars, runnerVars, msgVars,
     taskVars
<1>26. ASSUME NEW w \in Thread \X Job, Await(w) PROVE TypeOK'
  BY <1>26, StepType DEF Await, CancelPhase, TypeOK, dbVars, nodeVars, runnerVars, msgVars, taskVars
<1>27. ASSUME NEW w \in Thread \X Job, ForceKill(w) PROVE TypeOK'
  BY <1>27, StepType, KillType DEF ForceKill, CancelPhase, TypeOK, dbVars, nodeVars, runnerVars,
     msgVars, taskVars
<1>28. ASSUME NEW w \in Thread \X Job, Delete(w) PROVE TypeOK'
  BY <1>28, StepType DEF Delete, CancelPhase, TypeOK, dbVars, nodeVars, runnerVars, msgVars,
     taskVars
<1>29. ASSUME NEW j \in Job, CleanupStart(j) PROVE TypeOK'
  <2> DEFINE iid == j \in hasIdentity
  <2>1. iid \in BOOLEAN /\ [phase |-> "wait", iid |-> iid] \in CleanupRecord
    BY DEF CleanupRecord, CleanupPhase
  <2>2. kw' = [kw EXCEPT ![j].phase = "done"] \/ kw' = [kw EXCEPT ![j] = [phase |-> "wait",
     iid |-> iid]]
    BY <1>29 DEF CleanupStart
  <2> HIDE DEF iid
  <2>3. kw' \in [Job -> CleanupRecord]
    <3>1. CASE kw' = [kw EXCEPT ![j].phase = "done"]
      BY <3>1 DEF TypeOK, CleanupRecord, CleanupPhase
    <3>2. CASE kw' = [kw EXCEPT ![j] = [phase |-> "wait", iid |-> iid]]
      <4> DEFINE waiting == [phase |-> "wait", iid |-> iid]
      <4>1. waiting \in CleanupRecord /\ kw' = [kw EXCEPT ![j] = waiting]
        BY <2>1, <3>2
      <4> HIDE DEF waiting
      <4> QED
        BY <4>1 DEF TypeOK
    <3> QED
      BY <2>2, <3>1, <3>2
  <2>4. known' \subseteq Job
    BY <1>29 DEF CleanupStart, TypeOK
  <2> QED
    BY <1>29, <2>3, <2>4 DEF CleanupStart, TypeOK, dbVars, nodeVars, runnerVars, msgVars, taskVars
<1>30. ASSUME NEW j \in Job, CleanupFinish(j) PROVE TypeOK'
  <2>1. kw' \in [Job -> CleanupRecord]
    BY <1>30 DEF CleanupFinish, TypeOK, CleanupRecord, CleanupPhase
  <2>2. known' \subseteq Job /\ cont' \in [Job -> {"none", "up", "down", "gone"}]
    BY <1>30 DEF CleanupFinish, TypeOK
  <2> QED
    BY <1>30, <2>1, <2>2 DEF CleanupFinish, TypeOK, dbVars, nodeVars, runnerVars, msgVars, taskVars
<1>31. ASSUME NEW j \in Job, UserCancel(j) PROVE TypeOK'
  <2> DEFINE addr == j \in hasIdentity
  <2>1. addr \in BOOLEAN /\ <<"rest", j>> \in Thread \X Job
    BY DEF Thread
  <2>2. [NoCancel EXCEPT !.phase = "new", !.addr = addr] \in CancelRecord
    BY <2>1 DEF NoCancel, CancelRecord, CancelPhase
  <2>3. cw' = [cw EXCEPT ![<<"rest", j>>] = [NoCancel EXCEPT !.phase = "new", !.addr = addr]]
    BY <1>31 DEF UserCancel
  <2> HIDE DEF addr
  <2>4. cw' \in [Thread \X Job -> CancelRecord]
    BY <2>1, <2>2, <2>3 DEF TypeOK
  <2> QED
    BY <1>31, <2>4 DEF UserCancel, TypeOK, dbVars, nodeVars, runnerVars, msgVars, taskVars
<1>32. ASSUME NEW j \in Job, PurgeStart(j) PROVE TypeOK'
  BY <1>32, KillType DEF PurgeStart, TypeOK, dbVars, nodeVars, runnerVars, msgVars, taskVars
<1>33. ASSUME PurgeEnd PROVE TypeOK'
  BY <1>33 DEF PurgeEnd, TypeOK, dbVars, nodeVars, runnerVars, msgVars, taskVars
<1>34. ASSUME Crash PROVE TypeOK'
  <2>1. NoCancel \in CancelRecord /\ NoCleanup \in CleanupRecord
    BY DEF NoCancel, CancelRecord, CancelPhase, NoCleanup, CleanupRecord, CleanupPhase
  <2>2. [NewSub EXCEPT !.phase = "lost"] \in SubRecord
    BY DEF NewSub, SubRecord, SubPhase
  <2>3. crashes' \in 0..MaxCrashes
    BY <1>34, InputAssumption DEF Crash, TypeOK
  <2>4. sub' \in [Batch -> SubRecord]
    BY <1>34, <2>2 DEF Crash, TypeOK
  <2> QED
    BY <1>34, <2>1, <2>3, <2>4, IdleHdlType DEF Crash, TypeOK, dbVars, nodeVars, runnerVars,
       msgVars, taskVars
<1>35. CASE UNCHANGED vars
  BY <1>35 DEF vars, TypeOK, dbVars, nodeVars, runnerVars, msgVars, taskVars
<1> QED
  BY <1>1, <1>2, <1>3, <1>4, <1>5, <1>6, <1>7, <1>8, <1>9, <1>10, <1>11, <1>12, <1>13, <1>14,
     <1>15, <1>16, <1>17, <1>18, <1>19, <1>20, <1>21, <1>22, <1>23, <1>24, <1>25, <1>26, <1>27,
     <1>28, <1>29, <1>30, <1>31, <1>32, <1>33, <1>34, <1>35 DEF Next, Loops, Submission, Runner,
     Handler, Cancel, Cleanup

\* The initial state is typed.
LEMMA TypeInit == Init => TypeOK
<1> SUFFICES ASSUME Init PROVE TypeOK
  OBVIOUS
<1>1. IdleHdl \in HdlRecord /\ NewSub \in SubRecord /\ NoCancel \in CancelRecord /\ NoCleanup \in CleanupRecord
  BY DEF IdleHdl, HdlRecord, HdlPhase, NewSub, SubRecord, SubPhase, NoCancel, CancelRecord,
     CancelPhase,
         NoCleanup, CleanupRecord, CleanupPhase
<1> QED
  BY <1>1, InputAssumption DEF Init, TypeOK

\* In every reachable state of every instance the variables have their types.
THEOREM TypeCorrect == Spec => []TypeOK
  BY TypeInit, TypeStep, PTL DEF Spec

----------------------------------------------------------------------------
\* Reservations

\* What Kill leaves: nothing starts, and the containers of S that ran stopped.
LEMMA KillEffect ==
    ASSUME TypeOK, LiveIsUp, NEW S \in SUBSET Job, Kill(S)
    PROVE  /\ \A k \in Job : cont'[k] = "none" <=> cont[k] = "none"
           /\ \A k \in Job : cont'[k] = "up" => cont[k] = "up"
           /\ \A k \in Job : proc'[k] \in Live => proc'[k] = proc[k] /\ cont'[k] = cont[k]
           /\ \A k \in S : proc'[k] \notin Live /\ cont'[k] # "up"
  BY DEF TypeOK, LiveIsUp, Live, Kill

\* A step that starts nothing and leaves submissions alone keeps what is known of them.
LEMMA SubmissionKept ==
    ASSUME SubmissionInv, BatchAssumption, sub' = sub, hasContainer' \subseteq hasContainer,
           \A k \in Job : cont'[k] = "none" <=> cont[k] = "none",
           \A k \in Job : proc'[k] \in Live => proc[k] \in Live,
           \A k \in Job : state[k] = "none" => state'[k] = "none",
           \A k \in reserved : k \in reserved' \/ (cont[k] # "none" /\ proc[k] \notin Live)
    PROVE  SubmissionInv'
<1>1. \A b \in Batch : b \subseteq Job
  BY MembersAreJobs
<1> QED
  BY <1>1 DEF SubmissionInv, SubmissionOf, Stopped

\* A step of batch b that touches no job of another batch keeps what is known of the others.
LEMMA OthersKept ==
    ASSUME SubmissionInv, NEW b \in Batch,
           \A c \in Batch \ {b} : sub'[c] = sub[c],
           \A k \in Job \ b :
               /\ k \in hasContainer' => k \in hasContainer
               /\ cont'[k] = "none" <=> cont[k] = "none"
               /\ proc'[k] \in Live => proc[k] \in Live
               /\ state'[k] = state[k]
               /\ k \in reserved => k \in reserved'
    PROVE  \A c \in Batch \ {b} : SubmissionOf(c)'
<1> SUFFICES ASSUME NEW c \in Batch \ {b} PROVE SubmissionOf(c)'
  OBVIOUS
<1>1. c \subseteq Job \ b
  BY BatchesDisjoint, MembersAreJobs
<1>2. SubmissionOf(c) /\ sub'[c] = sub[c]
  BY DEF SubmissionInv
<1> QED
  BY <1>1, <1>2 DEF SubmissionOf, Stopped

\* A step of a runner or a worker that sends and answers nothing, and starts nothing.
LEMMA QuietStep ==
    ASSUME TypeOK, ReservationInv, sub' = sub, hdl' = hdl, req' = req, late' = late,
           hasContainer' = hasContainer, reserved' = reserved,
           \A k \in Job : state[k] = "none" => state'[k] = "none",
           \A k \in Job : cont'[k] = "none" <=> cont[k] = "none",
           \A k \in Job : proc'[k] \in Live => proc'[k] = proc[k] /\ cont'[k] = cont[k]
    PROVE  LiveIsReserved' /\ WorkIsRecorded' /\ LiveIsUp' /\ Unstarted' /\ EndIsTold' /\ SubmissionInv'
<1>1. LiveIsReserved' /\ LiveIsUp'
  BY DEF ReservationInv, LiveIsReserved, LiveIsUp
<1>2. WorkIsRecorded'
  BY DEF ReservationInv, WorkIsRecorded, Working, Live
<1>3. Unstarted'
  BY DEF ReservationInv, Unstarted
<1>4. EndIsTold'
  BY DEF ReservationInv, EndIsTold, TypeOK, HdlRecord
<1>5. SubmissionInv'
  BY SubmissionKept, BatchAssumption DEF ReservationInv
<1> QED
  BY <1>1, <1>2, <1>3, <1>4, <1>5

\* What the handler may hold of a request of j.
Grounded(h) ==
    h.phase # "idle" =>
        /\ h.job \in Job /\ cont[h.job] # "none"
        /\ h.req \in Ended => proc[h.job] \notin Live
        /\ h.phase \in {"collect", "release"} => h.req \in Ended
        /\ h.phase = "identity" => h.req = "handshake"
        /\ h.req = "handshake" => h.job \in hasContainer \/ proc[h.job] \notin Live

\* A step that takes or answers requests keeps what is known of them.
LEMMA HandlerStep ==
    ASSUME TypeOK, Unstarted, EndIsTold, hasContainer' = hasContainer, cont' = cont,
           \A k \in Job : req'[k] = req[k] \/ req'[k] = "none",
           late' \subseteq late,
           \A k \in Job : proc'[k] \in Live => proc[k] \in Live,
           hdl' = IdleHdl \/ hdl' = hdl \/ (hdl'.phase # "idle" /\ Grounded(hdl'))
    PROVE  Unstarted' /\ EndIsTold'
<1>1. IdleHdl.phase = "idle" /\ IdleHdl.job \notin Job
  BY InputAssumption DEF IdleHdl
<1>2. Unstarted'
  BY <1>1 DEF Unstarted, Grounded
<1>3. EndIsTold'
  BY <1>1 DEF EndIsTold, Grounded, Ended, TypeOK, HdlRecord
<1> QED
  BY <1>2, <1>3

\* What the invariant says of the request being handled.
LEMMA HeldNow == ASSUME TypeOK, Unstarted, EndIsTold PROVE Grounded(hdl)
  BY DEF TypeOK, HdlRecord, Unstarted, EndIsTold, Grounded

\* Every step keeps the invariant.
LEMMA ReservationStep ==
    ASSUME TypeOK, ReservationInv, [Next]_vars PROVE ReservationInv'
<1>1. ASSUME NEW b \in Batch, Prepare(b) PROVE ReservationInv'
  <2>1. b \subseteq Job /\ SubmissionOf(b) /\ sub[b] \in SubRecord
    BY MembersAreJobs DEF ReservationInv, SubmissionInv, TypeOK
  <2>2. \A c \in Batch \ {b} : SubmissionOf(c)'
    <3>1. UNCHANGED <<hasContainer, cont, proc, state>> /\ reserved \subseteq reserved'
      BY <1>1 DEF Prepare, dbVars, runnerVars
    <3>2. \A c \in Batch \ {b} : sub'[c] = sub[c]
      BY <1>1 DEF Prepare, Goto, TypeOK
    <3> QED
      BY <3>1, <3>2, OthersKept DEF ReservationInv
  <2>3. SubmissionOf(b)'
    BY <1>1, <2>1 DEF Prepare, Goto, TypeOK, SubRecord, NewSub, SubmissionOf, dbVars, nodeVars,
       runnerVars, msgVars, taskVars
  <2>4. SubmissionInv'
    BY <2>2, <2>3 DEF SubmissionInv
  <2>5. LiveIsReserved' /\ WorkIsRecorded' /\ LiveIsUp'
    BY <1>1, <2>1 DEF Prepare, Goto, ReservationInv, LiveIsReserved, WorkIsRecorded, LiveIsUp,
       Unstarted, SubmissionOf, Working, Live, Stopped, TypeOK, dbVars, nodeVars, runnerVars,
       msgVars, taskVars
  <2>6. Unstarted' /\ EndIsTold'
    BY <1>1, <2>1 DEF Prepare, Goto, ReservationInv, Unstarted, EndIsTold, SubmissionOf, Live,
       TypeOK, HdlRecord, dbVars, nodeVars, runnerVars, msgVars, taskVars
  <2>7. WorkersInv'
    BY <1>1, <2>1 DEF Prepare, Goto, ReservationInv, WorkersInv, SubmissionOf, TypeOK, dbVars,
       nodeVars, runnerVars, msgVars, taskVars
  <2>8. PurgeInv'
    BY <1>1, <2>1 DEF Prepare, Goto, ReservationInv, PurgeInv, Stopped, Live, TypeOK, dbVars,
       nodeVars, runnerVars, msgVars, taskVars
  <2> QED
    BY <2>4, <2>5, <2>6, <2>7, <2>8 DEF ReservationInv
<1>2. ASSUME NEW b \in Batch, CreateRecords(b) PROVE ReservationInv'
  <2>1. b \subseteq Job /\ SubmissionOf(b) /\ sub[b] \in SubRecord
    BY MembersAreJobs DEF ReservationInv, SubmissionInv, TypeOK
  <2>2. \A c \in Batch \ {b} : SubmissionOf(c)'
    BY <1>2, <2>1, OthersKept DEF CreateRecords, Goto, TypeOK, ReservationInv, SubmissionOf,
       dbVars, nodeVars, runnerVars, msgVars, taskVars
  <2>3. SubmissionOf(b)'
    BY <1>2, <2>1 DEF CreateRecords, Goto, TypeOK, SubRecord, NewSub, SubmissionOf, dbVars,
       nodeVars, runnerVars, msgVars, taskVars
  <2>4. SubmissionInv'
    BY <2>2, <2>3 DEF SubmissionInv
  <2>5. LiveIsReserved' /\ WorkIsRecorded' /\ LiveIsUp'
    BY <1>2, <2>1 DEF CreateRecords, Goto, ReservationInv, LiveIsReserved, WorkIsRecorded,
       LiveIsUp, Unstarted, SubmissionOf, Working, Live, Stopped, TypeOK, dbVars, nodeVars,
       runnerVars, msgVars, taskVars
  <2>6. Unstarted' /\ EndIsTold'
    BY <1>2, <2>1 DEF CreateRecords, Goto, ReservationInv, Unstarted, EndIsTold, SubmissionOf,
       Live, TypeOK, HdlRecord, dbVars, nodeVars, runnerVars, msgVars, taskVars
  <2>7. WorkersInv'
    BY <1>2, <2>1 DEF CreateRecords, Goto, ReservationInv, WorkersInv, SubmissionOf, TypeOK,
       dbVars, nodeVars, runnerVars, msgVars, taskVars
  <2>8. PurgeInv'
    BY <1>2, <2>1 DEF CreateRecords, Goto, ReservationInv, PurgeInv, Stopped, Live, TypeOK,
       dbVars, nodeVars, runnerVars, msgVars, taskVars
  <2> QED
    BY <2>4, <2>5, <2>6, <2>7, <2>8 DEF ReservationInv
<1>3. ASSUME NEW b \in Batch, NEW j \in b, StartContainer(b, j) PROVE ReservationInv'
  <2>1. b \subseteq Job /\ SubmissionOf(b) /\ sub[b] \in SubRecord
    BY MembersAreJobs DEF ReservationInv, SubmissionInv, TypeOK
  <2>2. \A c \in Batch \ {b} : SubmissionOf(c)'
    BY <1>3, <2>1, OthersKept DEF StartContainer, TypeOK, ReservationInv, SubmissionOf, dbVars,
       nodeVars, runnerVars, msgVars, taskVars
  <2>3. SubmissionOf(b)'
    BY <1>3, <2>1 DEF StartContainer, TypeOK, SubRecord, NewSub, SubmissionOf, ReservationInv,
       dbVars, nodeVars, runnerVars, msgVars, taskVars
  <2>4. SubmissionInv'
    BY <2>2, <2>3 DEF SubmissionInv
  <2>5. LiveIsReserved' /\ WorkIsRecorded' /\ LiveIsUp'
    BY <1>3, <2>1 DEF StartContainer, ReservationInv, LiveIsReserved, WorkIsRecorded, LiveIsUp,
       Unstarted, SubmissionOf, Working, Live, Stopped, TypeOK, dbVars, nodeVars, runnerVars,
       msgVars, taskVars
  <2>6. cont[j] = "none" /\ req[j] = "none" /\ hdl.job # j /\ \A m \in Ended : <<j, m>> \notin late
    BY <1>3, <2>1 DEF StartContainer, ReservationInv, Unstarted, SubmissionOf, Ended, Pushed
  <2>9. EndIsTold'
    BY SMTT(30), <1>3, <2>1, <2>6 DEF StartContainer, ReservationInv, EndIsTold, Ended, TypeOK, dbVars,
       msgVars
  <2>10. Unstarted'
    BY <1>3, <2>1 DEF StartContainer, ReservationInv, Unstarted, EndIsTold, SubmissionOf, Live,
       TypeOK, HdlRecord, dbVars, nodeVars, runnerVars, msgVars, taskVars
  <2>7. WorkersInv'
    BY <1>3, <2>1 DEF StartContainer, ReservationInv, WorkersInv, SubmissionOf, TypeOK, dbVars,
       nodeVars, runnerVars, msgVars, taskVars
  <2>8. PurgeInv'
    BY <1>3, <2>1 DEF StartContainer, ReservationInv, PurgeInv, Stopped, Live, TypeOK, dbVars,
       nodeVars, runnerVars, msgVars, taskVars
  <2> QED
    BY <2>4, <2>5, <2>9, <2>10, <2>7, <2>8 DEF ReservationInv
<1>4. ASSUME NEW b \in Batch, RecordContainer(b) PROVE ReservationInv'
  <2>1. b \subseteq Job /\ SubmissionOf(b) /\ sub[b] \in SubRecord
    BY MembersAreJobs DEF ReservationInv, SubmissionInv, TypeOK
  <2>2. \A c \in Batch \ {b} : SubmissionOf(c)'
    BY <1>4, <2>1, OthersKept DEF RecordContainer, Goto, TypeOK, ReservationInv, SubmissionOf,
       dbVars, nodeVars, runnerVars, msgVars, taskVars
  <2>3. SubmissionOf(b)'
    BY <1>4, <2>1 DEF RecordContainer, Goto, TypeOK, SubRecord, NewSub, SubmissionOf, dbVars,
       nodeVars, runnerVars, msgVars, taskVars
  <2>4. SubmissionInv'
    BY <2>2, <2>3 DEF SubmissionInv
  <2>5. LiveIsReserved' /\ WorkIsRecorded' /\ LiveIsUp'
    BY <1>4, <2>1 DEF RecordContainer, Goto, ReservationInv, LiveIsReserved, WorkIsRecorded,
       LiveIsUp, Unstarted, SubmissionOf, Working, Live, Stopped, TypeOK, dbVars, nodeVars,
       runnerVars, msgVars, taskVars
  <2>6. Unstarted' /\ EndIsTold'
    BY <1>4, <2>1 DEF RecordContainer, Goto, ReservationInv, Unstarted, EndIsTold, SubmissionOf,
       Live, TypeOK, HdlRecord, dbVars, nodeVars, runnerVars, msgVars, taskVars
  <2>7. WorkersInv'
    BY <1>4, <2>1 DEF RecordContainer, Goto, ReservationInv, WorkersInv, SubmissionOf, TypeOK,
       dbVars, nodeVars, runnerVars, msgVars, taskVars
  <2>8. PurgeInv'
    BY <1>4, <2>1 DEF RecordContainer, Goto, ReservationInv, PurgeInv, SubmissionOf, Stopped,
       Live, TypeOK, dbVars, nodeVars, runnerVars, msgVars, taskVars
  <2> QED
    BY <2>4, <2>5, <2>6, <2>7, <2>8 DEF ReservationInv
<1>5. ASSUME NEW b \in Batch, LaunchFails(b) PROVE ReservationInv'
  <2>1. b \subseteq Job /\ SubmissionOf(b) /\ sub[b] \in SubRecord
    BY MembersAreJobs DEF ReservationInv, SubmissionInv, TypeOK
  <2>2. \A c \in Batch \ {b} : SubmissionOf(c)'
    BY <1>5, <2>1, OthersKept DEF LaunchFails, Goto, TypeOK, ReservationInv, SubmissionOf, dbVars,
       nodeVars, runnerVars, msgVars, taskVars
  <2>3. SubmissionOf(b)'
    BY <1>5, <2>1 DEF LaunchFails, Goto, TypeOK, SubRecord, NewSub, SubmissionOf, dbVars,
       nodeVars, runnerVars, msgVars, taskVars
  <2>4. SubmissionInv'
    BY <2>2, <2>3 DEF SubmissionInv
  <2>5. LiveIsReserved' /\ WorkIsRecorded' /\ LiveIsUp'
    BY <1>5, <2>1 DEF LaunchFails, Goto, ReservationInv, LiveIsReserved, WorkIsRecorded, LiveIsUp,
       Unstarted, SubmissionOf, Working, Live, Stopped, TypeOK, dbVars, nodeVars, runnerVars,
       msgVars, taskVars
  <2>6. Unstarted' /\ EndIsTold'
    BY <1>5, <2>1 DEF LaunchFails, Goto, ReservationInv, Unstarted, EndIsTold, SubmissionOf, Live,
       TypeOK, HdlRecord, dbVars, nodeVars, runnerVars, msgVars, taskVars
  <2>7. WorkersInv'
    BY <1>5, <2>1 DEF LaunchFails, Goto, ReservationInv, WorkersInv, SubmissionOf, TypeOK, dbVars,
       nodeVars, runnerVars, msgVars, taskVars
  <2>8. PurgeInv'
    BY <1>5, <2>1 DEF LaunchFails, Goto, ReservationInv, PurgeInv, Stopped, Live, TypeOK, dbVars,
       nodeVars, runnerVars, msgVars, taskVars
  <2> QED
    BY <2>4, <2>5, <2>6, <2>7, <2>8 DEF ReservationInv
<1>6. ASSUME NEW b \in Batch, NEW j \in b, PurgeMember(b, j) PROVE ReservationInv'
  <2>1. b \subseteq Job /\ SubmissionOf(b) /\ sub[b] \in SubRecord
    BY MembersAreJobs DEF ReservationInv, SubmissionInv, TypeOK
  <2>2. CASE state[j] = "none"
    <3>1. \A c \in Batch \ {b} : SubmissionOf(c)'
      BY <1>6, <2>1, <2>2, OthersKept DEF PurgeMember, Goto, TypeOK, ReservationInv, dbVars,
         nodeVars, runnerVars, msgVars, taskVars
    <3>2. SubmissionOf(b)'
      BY <1>6, <2>1, <2>2 DEF PurgeMember, Goto, TypeOK, SubmissionOf
    <3>3. PurgeInv'
      BY <1>6, <2>2 DEF PurgeMember, Goto, ReservationInv, PurgeInv, Stopped, TypeOK, dbVars,
         nodeVars, runnerVars, msgVars, taskVars
    <3> QED
      BY <1>6, <2>2, <3>1, <3>2, <3>3 DEF PurgeMember, ReservationInv, SubmissionInv,
         LiveIsReserved, WorkIsRecorded, LiveIsUp, Unstarted, EndIsTold, WorkersInv, Working,
         dbVars, nodeVars, runnerVars, msgVars, taskVars
  <2>3. CASE state[j] # "none"
    <3>1. /\ LiveIsUp /\ {j} \cap hasContainer \in SUBSET Job /\ Kill({j} \cap hasContainer)
          /\ sub[b].phase = "purge" /\ UNCHANGED <<dbVars, nodeVars, msgVars, hdl, cw, kw, purging, crashes>>
      BY <1>6, <2>1, <2>3 DEF PurgeMember, ReservationInv
    <3>2. /\ \A k \in Job : cont'[k] = "none" <=> cont[k] = "none"
          /\ \A k \in Job : cont'[k] = "up" => cont[k] = "up"
          /\ \A k \in Job : proc'[k] \in Live => proc'[k] = proc[k] /\ cont'[k] = cont[k]
          /\ j \in hasContainer => proc'[j] \notin Live
      BY <3>1, KillEffect
    <3>3. \A c \in Batch \ {b} : SubmissionOf(c)'
      BY <1>6, <2>1, <2>3, <3>1, <3>2, OthersKept DEF PurgeMember, Goto, TypeOK, ReservationInv,
         dbVars, nodeVars
    <3>4. sub'[b].left = sub[b].left \ {j} /\ sub'[b].phase = IF sub[b].left = {j} THEN "commit" ELSE "purge"
      BY <1>6, <2>3 DEF PurgeMember, Goto, TypeOK
    <3>5. SubmissionOf(b)'
      BY <1>6, <2>1, <3>1, <3>2, <3>4 DEF PurgeMember, SubmissionOf, Stopped, dbVars, nodeVars
    <3>6. LiveIsReserved' /\ WorkIsRecorded' /\ LiveIsUp'
      BY <3>1, <3>2 DEF ReservationInv, LiveIsReserved, WorkIsRecorded, LiveIsUp, Working, Live,
         dbVars, nodeVars
    <3>7. Unstarted' /\ EndIsTold'
      BY <3>1, <3>2 DEF ReservationInv, Unstarted, EndIsTold, TypeOK, HdlRecord, dbVars, msgVars
    <3>8. WorkersInv'
      BY <3>1, <3>2 DEF ReservationInv, WorkersInv, TypeOK
    <3>9. PurgeInv'
      BY <1>6, <2>3, <3>1, <3>2 DEF PurgeMember, Goto, ReservationInv, PurgeInv, Stopped, TypeOK,
         dbVars
    <3> QED
      BY <3>3, <3>5, <3>6, <3>7, <3>8, <3>9 DEF ReservationInv, SubmissionInv
  <2> QED
    BY <2>2, <2>3
<1>7. ASSUME NEW b \in Batch, CommitFailed(b) PROVE ReservationInv'
  <2>1. b \subseteq Job /\ SubmissionOf(b) /\ sub[b] \in SubRecord
    BY MembersAreJobs DEF ReservationInv, SubmissionInv, TypeOK
  <2>2. \A c \in Batch \ {b} : SubmissionOf(c)'
    BY <1>7, <2>1, OthersKept DEF CommitFailed, Goto, TypeOK, ReservationInv, SubmissionOf,
       dbVars, nodeVars, runnerVars, msgVars, taskVars
  <2>3. SubmissionOf(b)'
    BY <1>7, <2>1 DEF CommitFailed, Goto, TypeOK, SubRecord, NewSub, SubmissionOf, Stopped,
       dbVars, nodeVars, runnerVars, msgVars, taskVars
  <2>4. SubmissionInv'
    BY <2>2, <2>3 DEF SubmissionInv
  <2>5. LiveIsReserved' /\ WorkIsRecorded' /\ LiveIsUp'
    BY <1>7, <2>1 DEF CommitFailed, Goto, ReservationInv, LiveIsReserved, WorkIsRecorded,
       LiveIsUp, Unstarted, SubmissionOf, Working, Live, Stopped, TypeOK, dbVars, nodeVars,
       runnerVars, msgVars, taskVars
  <2>6. Unstarted' /\ EndIsTold'
    BY <1>7, <2>1 DEF CommitFailed, Goto, ReservationInv, Unstarted, EndIsTold, SubmissionOf,
       Live, TypeOK, HdlRecord, dbVars, nodeVars, runnerVars, msgVars, taskVars
  <2>7. WorkersInv'
    BY <1>7, <2>1 DEF CommitFailed, Goto, ReservationInv, WorkersInv, SubmissionOf, TypeOK,
       dbVars, nodeVars, runnerVars, msgVars, taskVars
  <2>8. PurgeInv'
    BY <1>7, <2>1 DEF CommitFailed, Goto, ReservationInv, PurgeInv, Stopped, Live, TypeOK, dbVars,
       nodeVars, runnerVars, msgVars, taskVars
  <2> QED
    BY <2>4, <2>5, <2>6, <2>7, <2>8 DEF ReservationInv
<1>8. ASSUME NEW b \in Batch, ReleaseFailed(b) PROVE ReservationInv'
  <2>1. b \subseteq Job /\ SubmissionOf(b) /\ sub[b] \in SubRecord
    BY MembersAreJobs DEF ReservationInv, SubmissionInv, TypeOK
  <2>2. \A c \in Batch \ {b} : SubmissionOf(c)'
    BY <1>8, <2>1, OthersKept DEF ReleaseFailed, Goto, TypeOK, ReservationInv, SubmissionOf,
       dbVars, nodeVars, runnerVars, msgVars, taskVars
  <2>3. SubmissionOf(b)'
    BY <1>8, <2>1 DEF ReleaseFailed, Goto, TypeOK, SubRecord, NewSub, SubmissionOf, Stopped,
       dbVars, nodeVars, runnerVars, msgVars, taskVars
  <2>4. SubmissionInv'
    BY <2>2, <2>3 DEF SubmissionInv
  <2>5. LiveIsReserved' /\ WorkIsRecorded' /\ LiveIsUp'
    BY <1>8, <2>1 DEF ReleaseFailed, Goto, ReservationInv, LiveIsReserved, WorkIsRecorded,
       LiveIsUp, Unstarted, SubmissionOf, Working, Live, Stopped, TypeOK, dbVars, nodeVars,
       runnerVars, msgVars, taskVars
  <2>6. Unstarted' /\ EndIsTold'
    BY <1>8, <2>1 DEF ReleaseFailed, Goto, ReservationInv, Unstarted, EndIsTold, SubmissionOf,
       Live, TypeOK, HdlRecord, dbVars, nodeVars, runnerVars, msgVars, taskVars
  <2>7. WorkersInv'
    BY <1>8, <2>1 DEF ReleaseFailed, Goto, ReservationInv, WorkersInv, SubmissionOf, TypeOK,
       dbVars, nodeVars, runnerVars, msgVars, taskVars
  <2>8. PurgeInv'
    BY <1>8, <2>1 DEF ReleaseFailed, Goto, ReservationInv, PurgeInv, Stopped, Live, TypeOK,
       dbVars, nodeVars, runnerVars, msgVars, taskVars
  <2> QED
    BY <2>4, <2>5, <2>6, <2>7, <2>8 DEF ReservationInv
<1>9. ASSUME NEW j \in Job, SendHandshake(j) PROVE ReservationInv'
  <2>1. SubmissionInv'
    BY <1>9, SubmissionKept, BatchAssumption DEF SendHandshake, ReservationInv, Live, TypeOK,
       dbVars, nodeVars, runnerVars, msgVars, taskVars
  <2>2. LiveIsReserved' /\ WorkIsRecorded' /\ LiveIsUp' /\ WorkersInv' /\ PurgeInv'
    BY <1>9 DEF SendHandshake, ReservationInv, LiveIsReserved, WorkIsRecorded, LiveIsUp,
       WorkersInv, PurgeInv, Working, Stopped, Live, TypeOK, dbVars, nodeVars, runnerVars,
       msgVars, taskVars
  <2>3. Unstarted'
    BY <1>9 DEF SendHandshake, ReservationInv, Unstarted, TypeOK, dbVars, nodeVars, runnerVars,
       msgVars, taskVars
  <2>4. EndIsTold'
    BY <1>9 DEF SendHandshake, ReservationInv, EndIsTold, LiveIsUp, Live, Ended, TypeOK,
       HdlRecord, dbVars, nodeVars, runnerVars, msgVars, taskVars
  <2> QED
    BY <2>1, <2>2, <2>3, <2>4 DEF ReservationInv
<1>10. ASSUME NEW j \in Job, SendStatus(j) PROVE ReservationInv'
  <2>1. SubmissionInv'
    BY <1>10, SubmissionKept, BatchAssumption DEF SendStatus, ReservationInv, Live, TypeOK,
       dbVars, nodeVars, runnerVars, msgVars, taskVars
  <2>2. LiveIsReserved' /\ WorkIsRecorded' /\ LiveIsUp' /\ WorkersInv' /\ PurgeInv'
    BY <1>10 DEF SendStatus, ReservationInv, LiveIsReserved, WorkIsRecorded, LiveIsUp, WorkersInv,
       PurgeInv, Working, Stopped, Live, TypeOK, dbVars, nodeVars, runnerVars, msgVars, taskVars
  <2>3. Unstarted'
    BY <1>10 DEF SendStatus, ReservationInv, Unstarted, TypeOK, dbVars, nodeVars, runnerVars,
       msgVars, taskVars
  <2>4. EndIsTold'
    BY <1>10 DEF SendStatus, Local, ReservationInv, EndIsTold, LiveIsUp, Live, Ended, TypeOK,
       HdlRecord, dbVars, nodeVars, runnerVars, msgVars, taskVars
  <2> QED
    BY <2>1, <2>2, <2>3, <2>4 DEF ReservationInv
<1>11. ASSUME NEW j \in Job, TimeOut(j) PROVE ReservationInv'
  <2>1. SubmissionInv'
    BY <1>11, SubmissionKept, BatchAssumption DEF TimeOut, Handled, ReservationInv, Live, TypeOK,
       dbVars, nodeVars, runnerVars, msgVars, taskVars
  <2>2. LiveIsReserved' /\ WorkIsRecorded' /\ LiveIsUp' /\ WorkersInv' /\ PurgeInv'
    BY <1>11 DEF TimeOut, Handled, ReservationInv, LiveIsReserved, WorkIsRecorded, LiveIsUp,
       WorkersInv, PurgeInv, Working, Stopped, Live, TypeOK, dbVars, nodeVars, runnerVars,
       msgVars, taskVars
  <2>3. Unstarted'
    BY <1>11 DEF TimeOut, Handled, ReservationInv, Unstarted, TypeOK, dbVars, nodeVars,
       runnerVars, msgVars, taskVars
  <2>4. EndIsTold'
    BY <1>11 DEF TimeOut, Handled, ReservationInv, EndIsTold, LiveIsUp, Live, Ended, TypeOK,
       HdlRecord, dbVars, nodeVars, runnerVars, msgVars, taskVars
  <2> QED
    BY <2>1, <2>2, <2>3, <2>4 DEF ReservationInv
<1>12. ASSUME NEW j \in Job, GiveUp(j) PROVE ReservationInv'
  <2>1. SubmissionInv'
    BY <1>12, SubmissionKept, BatchAssumption DEF GiveUp, Handled, ReservationInv, Live, TypeOK,
       dbVars, nodeVars, runnerVars, msgVars, taskVars
  <2>2. LiveIsReserved' /\ WorkIsRecorded' /\ LiveIsUp' /\ WorkersInv' /\ PurgeInv'
    BY <1>12 DEF GiveUp, Handled, ReservationInv, LiveIsReserved, WorkIsRecorded, LiveIsUp,
       WorkersInv, PurgeInv, Working, Stopped, Live, TypeOK, dbVars, nodeVars, runnerVars,
       msgVars, taskVars
  <2>3. Unstarted'
    BY <1>12 DEF GiveUp, Handled, ReservationInv, Unstarted, TypeOK, dbVars, nodeVars, runnerVars,
       msgVars, taskVars
  <2>4. EndIsTold'
    BY <1>12 DEF GiveUp, Handled, ReservationInv, EndIsTold, LiveIsUp, Live, Ended, TypeOK,
       HdlRecord, dbVars, nodeVars, runnerVars, msgVars, taskVars
  <2> QED
    BY <2>1, <2>2, <2>3, <2>4 DEF ReservationInv
<1>13. ASSUME NEW j \in Job, Work(j) PROVE ReservationInv'
  <2>1. SubmissionInv'
    BY <1>13, SubmissionKept, BatchAssumption DEF Work, ReservationInv, Live, TypeOK, dbVars,
       nodeVars, runnerVars, msgVars, taskVars
  <2>2. LiveIsReserved' /\ WorkIsRecorded' /\ LiveIsUp' /\ WorkersInv' /\ PurgeInv'
    BY <1>13 DEF Work, ReservationInv, LiveIsReserved, WorkIsRecorded, LiveIsUp, WorkersInv,
       PurgeInv, Working, Stopped, Live, TypeOK, dbVars, nodeVars, runnerVars, msgVars, taskVars
  <2>3. Unstarted'
    BY <1>13 DEF Work, ReservationInv, Unstarted, TypeOK, dbVars, nodeVars, runnerVars, msgVars,
       taskVars
  <2>4. EndIsTold'
    BY <1>13 DEF Work, ReservationInv, EndIsTold, LiveIsUp, Live, Ended, TypeOK, HdlRecord,
       dbVars, nodeVars, runnerVars, msgVars, taskVars
  <2> QED
    BY <2>1, <2>2, <2>3, <2>4 DEF ReservationInv
<1>14. ASSUME NEW j \in Job, Exit(j) PROVE ReservationInv'
  <2>1. LiveIsUp /\ {j} \in SUBSET Job /\ Kill({j})
    BY <1>14 DEF Exit, ReservationInv
  <2>2. LiveIsReserved' /\ WorkIsRecorded' /\ LiveIsUp' /\ Unstarted' /\ EndIsTold' /\ SubmissionInv'
    BY <1>14, <2>1, KillEffect, QuietStep DEF Exit, dbVars, nodeVars, msgVars, taskVars
  <2>3. WorkersInv'
    BY <1>14, <2>1, KillEffect DEF Exit, ReservationInv, WorkersInv, TypeOK, CancelRecord, taskVars
  <2>4. PurgeInv'
    BY <1>14, <2>1, <2>2, KillEffect DEF Exit, ReservationInv, PurgeInv, Stopped, TypeOK, dbVars,
       taskVars
  <2> QED
    BY <2>2, <2>3, <2>4 DEF ReservationInv
<1>15. ASSUME NEW j \in Job, Die(j) PROVE ReservationInv'
  <2>1. LiveIsUp /\ {j} \in SUBSET Job /\ Kill({j})
    BY <1>15 DEF Die, ReservationInv
  <2>2. LiveIsReserved' /\ WorkIsRecorded' /\ LiveIsUp' /\ Unstarted' /\ EndIsTold' /\ SubmissionInv'
    BY <1>15, <2>1, KillEffect, QuietStep DEF Die, dbVars, nodeVars, msgVars, taskVars
  <2>3. WorkersInv'
    BY <1>15, <2>1, KillEffect DEF Die, ReservationInv, WorkersInv, TypeOK, CancelRecord, taskVars
  <2>4. PurgeInv'
    BY <1>15, <2>1, <2>2, KillEffect DEF Die, ReservationInv, PurgeInv, Stopped, TypeOK, dbVars,
       taskVars
  <2> QED
    BY <2>2, <2>3, <2>4 DEF ReservationInv
<1>16. ASSUME NEW j \in Job, NEW l \in BOOLEAN, HandshakeRead(j, l) PROVE ReservationInv'
  <2>1. /\ \A k \in Job : req'[k] = req[k] \/ req'[k] = "none"
        /\ late' \subseteq late
        /\ cont[j] # "none"
    BY <1>16 DEF HandshakeRead, Take, Reply, ReservationInv, Unstarted, TypeOK
  <2>2. \A k \in Job : proc'[k] \in Live => proc'[k] = proc[k]
    BY <1>16 DEF HandshakeRead, Proceed, Live, TypeOK
  <2>3. hdl' = hdl \/ (hdl'.phase = "read" /\ Grounded(hdl'))
    BY <1>16, <2>1 DEF HandshakeRead, IdleHdl, Grounded, Ended
  <2>4. Unstarted' /\ EndIsTold'
    BY <1>16, <2>1, <2>2, <2>3, HandlerStep DEF HandshakeRead, ReservationInv, dbVars
  <2>5. SubmissionInv'
    BY <1>16, <2>2, SubmissionKept, BatchAssumption DEF HandshakeRead, ReservationInv, dbVars,
       nodeVars
  <2>6. LiveIsReserved' /\ WorkIsRecorded' /\ LiveIsUp'
    BY <1>16, <2>2 DEF HandshakeRead, ReservationInv, LiveIsReserved, WorkIsRecorded, LiveIsUp,
       Working, Live, dbVars, nodeVars
  <2>7. WorkersInv' /\ PurgeInv'
    BY <1>16, <2>2 DEF HandshakeRead, ReservationInv, WorkersInv, PurgeInv, Stopped, TypeOK, dbVars
  <2> QED
    BY <2>4, <2>5, <2>6, <2>7 DEF ReservationInv
<1>17. ASSUME NEW j \in Job, NEW s \in Pushed, NEW l \in BOOLEAN, StatusRead(j, s,
   l) PROVE ReservationInv'
  <2>1. /\ \A k \in Job : req'[k] = req[k] \/ req'[k] = "none"
        /\ late' \subseteq late
        /\ cont[j] # "none" /\ (s \in Ended => proc[j] \notin Live)
    <3>1. (l /\ <<j, s>> \in late) \/ req[j] = s
      BY <1>17 DEF StatusRead, Take
    <3>2. cont[j] # "none"
      BY <1>17, <3>1 DEF StatusRead, ReservationInv, Unstarted, Pushed
    <3>3. s \in Ended => proc[j] \notin Live
      BY <3>1 DEF ReservationInv, EndIsTold
    <3>4. late' \subseteq late
      BY <1>17 DEF StatusRead, Take
    <3>5. UNCHANGED req \/ Reply(j, l)
      BY <1>17 DEF StatusRead
    <3> QED
      BY <3>2, <3>3, <3>4, <3>5 DEF Reply, TypeOK
  <2>2. hdl' = hdl \/ (hdl'.phase = "read" /\ Grounded(hdl'))
    BY <1>17, <2>1 DEF StatusRead, IdleHdl, Grounded, Pushed
  <2>3. Unstarted' /\ EndIsTold'
    BY <1>17, <2>1, <2>2, HandlerStep DEF StatusRead, ReservationInv, dbVars, runnerVars
  <2>4. SubmissionInv'
    BY <1>17, SubmissionKept, BatchAssumption DEF StatusRead, ReservationInv, dbVars, nodeVars,
       runnerVars
  <2> QED
    BY <1>17, <2>3, <2>4 DEF StatusRead, ReservationInv, LiveIsReserved, WorkIsRecorded, LiveIsUp,
       Working, PurgeInv, Stopped, Live, dbVars, nodeVars, WorkersInv, runnerVars
<1>18. ASSUME HandshakeCommit PROVE ReservationInv'
  <2>1. hdl.job \in Job /\ Grounded(hdl)
    BY <1>18, HeldNow DEF HandshakeCommit, Grounded, ReservationInv
  <2>2. /\ \A k \in Job : req'[k] = req[k] \/ req'[k] = "none"
        /\ \A k \in Job : proc'[k] \in Live => proc'[k] = proc[k]
    BY <1>18, <2>1 DEF HandshakeCommit, Reply, Proceed, Live, TypeOK
  <2>3. hdl' = IdleHdl \/ (hdl'.phase = "identity" /\ Grounded(hdl'))
    BY <1>18, <2>1 DEF HandshakeCommit, Grounded, TypeOK, HdlRecord
  <2>4. Unstarted' /\ EndIsTold'
    BY <1>18, <2>2, <2>3, HandlerStep DEF HandshakeCommit, ReservationInv
  <2>5. SubmissionInv'
    BY <1>18, <2>2, SubmissionKept, BatchAssumption DEF HandshakeCommit, ReservationInv, nodeVars
  <2>6. LiveIsReserved' /\ WorkIsRecorded' /\ LiveIsUp'
    BY <1>18, <2>2 DEF HandshakeCommit, ReservationInv, LiveIsReserved, WorkIsRecorded, LiveIsUp,
       Working, Live, nodeVars
  <2>7. WorkersInv' /\ PurgeInv'
    BY <1>18, <2>2 DEF HandshakeCommit, ReservationInv, WorkersInv, PurgeInv, Stopped, TypeOK
  <2> QED
    BY <2>4, <2>5, <2>6, <2>7 DEF ReservationInv
<1>19. ASSUME HandshakeReply PROVE ReservationInv'
  <2>1. hdl.job \in Job /\ Grounded(hdl)
    BY <1>19, HeldNow DEF HandshakeReply, Grounded, ReservationInv, TypeOK, HdlRecord
  <2>2. hdl.req = "handshake"
    BY <1>19 DEF HandshakeReply, ReservationInv, EndIsTold
  <2>3. /\ \A k \in Job : req'[k] = req[k] \/ req'[k] = "none"
        /\ \A k \in Job : proc'[k] = proc[k] \/ (k = hdl.job /\ proc[k] = "start" /\ proc'[k] = "init")
    BY <1>19, <2>1 DEF HandshakeReply, Reply, Proceed, TypeOK
  <2>4. \A k \in Job : proc'[k] \in Live => proc[k] \in Live
    BY <2>3 DEF Live
  <2>5. Unstarted' /\ EndIsTold'
    BY <1>19, <2>3, <2>4, HandlerStep DEF HandshakeReply, ReservationInv, dbVars
  <2>6. SubmissionInv'
    BY <1>19, <2>4, SubmissionKept, BatchAssumption DEF HandshakeReply, ReservationInv, dbVars
  <2>7. WorkIsRecorded'
    BY <1>19, <2>1, <2>2, <2>3 DEF HandshakeReply, ReservationInv, WorkIsRecorded, Working,
       Grounded, Live, dbVars
  <2>8. LiveIsReserved' /\ LiveIsUp'
    BY <1>19, <2>4 DEF HandshakeReply, ReservationInv, LiveIsReserved, LiveIsUp, dbVars
  <2>9. WorkersInv' /\ PurgeInv'
    BY <1>19, <2>4 DEF HandshakeReply, ReservationInv, WorkersInv, PurgeInv, Stopped, TypeOK, dbVars
  <2> QED
    BY <2>5, <2>6, <2>7, <2>8, <2>9 DEF ReservationInv
<1>20. ASSUME StatusCommit PROVE ReservationInv'
  <2>1. hdl.job \in Job /\ Grounded(hdl)
    BY <1>20, HeldNow DEF StatusCommit, Grounded, ReservationInv
  <2>2. \A k \in Job : req'[k] = req[k] \/ req'[k] = "none"
    BY <1>20, <2>1 DEF StatusCommit, Reply, TypeOK
  <2>3. hdl' = IdleHdl \/ (hdl'.phase = "collect" /\ Grounded(hdl'))
    BY <1>20, <2>1 DEF StatusCommit, Grounded, TypeOK, HdlRecord, Pushed, Terminal, Ended
  <2>4. Unstarted' /\ EndIsTold'
    BY <1>20, <2>2, <2>3, HandlerStep DEF StatusCommit, ReservationInv, runnerVars
  <2>5. \A k \in Job : state[k] = "none" => state'[k] = "none"
    BY <1>20, <2>1 DEF StatusCommit, TypeOK
  <2>6. SubmissionInv'
    BY <1>20, <2>5, SubmissionKept, BatchAssumption DEF StatusCommit, ReservationInv, nodeVars,
       runnerVars
  <2> QED
    BY <1>20, <2>4, <2>6 DEF StatusCommit, ReservationInv, LiveIsReserved, WorkIsRecorded,
       LiveIsUp, Working, PurgeInv, Stopped, Live, dbVars, nodeVars, WorkersInv, runnerVars
<1>21. ASSUME StatusCollect PROVE ReservationInv'
  <2>1. hdl.job \in Job /\ Grounded(hdl)
    BY <1>21, HeldNow DEF StatusCollect, Grounded, ReservationInv
  <2> DEFINE kill == IF hdl.req = "failed" THEN {k \in Siblings(hdl.job) : state[k] \in Active} \ Cancelling ELSE {}
             clean == kw[hdl.job].phase = "none"
  <2>7. hdl' = IdleHdl \/ hdl' = [hdl EXCEPT !.phase = "release", !.kill = kill, !.clean = clean]
    BY <1>21 DEF StatusCollect
  <2>8. clean \in BOOLEAN /\ hdl.phase = "collect"
    BY <1>21 DEF StatusCollect
  <2> HIDE DEF kill, clean
  <2>2. hdl' = IdleHdl \/ (hdl'.phase = "release" /\ Grounded(hdl'))
    <3>1. CASE hdl' = IdleHdl
      BY <3>1
    <3>2. CASE hdl' = [hdl EXCEPT !.phase = "release", !.kill = kill, !.clean = clean]
      <4>1. hdl \in [phase : HdlPhase, job : Job \cup {NoJob}, req : Pushed \cup {"none",
         "handshake"},
                     late : BOOLEAN, kill : SUBSET Job, clean : BOOLEAN]
        BY DEF TypeOK, HdlRecord
      <4>2. hdl'.phase = "release" /\ hdl'.job = hdl.job /\ hdl'.req = hdl.req
        BY <3>2, <4>1
      <4> QED
        BY <2>1, <2>8, <4>2 DEF Grounded
    <3> QED
      BY <2>7, <3>1, <3>2
  <2>3. Unstarted' /\ EndIsTold'
    BY <1>21, <2>2, HandlerStep DEF StatusCollect, ReservationInv, dbVars, runnerVars, msgVars
  <2>4. SubmissionInv'
    BY <1>21, SubmissionKept, BatchAssumption DEF StatusCollect, ReservationInv, dbVars, nodeVars,
       runnerVars
  <2>5. /\ \A k \in Job : kw'[k] = kw[k] \/ kw'[k].phase = "placeholder"
        /\ \A w \in Thread \X Job : cw'[w] = cw[w] \/ cw'[w].phase = "placeholder"
    <3>1. \A k \in Job : kw'[k] = kw[k] \/ kw'[k].phase = "placeholder"
      <4>1. kw' = [kw EXCEPT ![hdl.job].phase = "placeholder"] \/ kw' = kw
        BY <1>21 DEF StatusCollect
      <4> QED
        BY <2>1, <4>1 DEF TypeOK, CleanupRecord
    <3>2. ASSUME NEW w \in Thread \X Job PROVE cw'[w] = cw[w] \/ cw'[w].phase = "placeholder"
      <4> DEFINE addr == w[2] \in hasIdentity
      <4>1. cw'[w] = cw[w] \/ cw'[w] = [NoCancel EXCEPT !.phase = "placeholder", !.addr = addr]
        BY <1>21 DEF StatusCollect
      <4>2. addr \in BOOLEAN
        OBVIOUS
      <4> HIDE DEF addr
      <4> QED
        BY <4>1, <4>2 DEF NoCancel
    <3> QED
      BY <3>1, <3>2
  <2>6. WorkersInv'
    <3>1. cont' = cont /\ WorkersInv
      BY <1>21 DEF StatusCollect, ReservationInv, runnerVars
    <3> QED
      BY <2>5, <3>1 DEF WorkersInv
  <2> QED
    BY <1>21, <2>3, <2>4, <2>6 DEF StatusCollect, ReservationInv, LiveIsReserved, WorkIsRecorded,
       LiveIsUp, Working, PurgeInv, Stopped, Live, dbVars, nodeVars, runnerVars
<1>22. ASSUME StatusRelease PROVE ReservationInv'
  <2>1. hdl.job \in Job /\ cont[hdl.job] # "none" /\ proc[hdl.job] \notin Live
    BY <1>22, HeldNow DEF StatusRelease, Grounded, ReservationInv
  <2>2. \A k \in Job : req'[k] = req[k] \/ req'[k] = "none"
    BY <1>22, <2>1 DEF StatusRelease, Reply, TypeOK
  <2>3. Unstarted' /\ EndIsTold'
    BY <1>22, <2>2, HandlerStep DEF StatusRelease, ReservationInv, dbVars, runnerVars
  <2>4. SubmissionInv'
    BY <1>22, <2>1, SubmissionKept, BatchAssumption DEF StatusRelease, ReservationInv, dbVars,
       runnerVars
  <2>5. /\ \A k \in Job : kw'[k] = kw[k] \/ kw'[k].phase = "new"
        /\ \A w \in Thread \X Job : cw'[w] = cw[w] \/ cw'[w].phase = "new"
    BY <1>22, <2>1 DEF StatusRelease, TypeOK, CleanupRecord, CancelRecord
  <2>6. WorkersInv'
    BY <1>22, <2>5 DEF StatusRelease, ReservationInv, WorkersInv, runnerVars
  <2>7. LiveIsReserved'
    BY <1>22, <2>1 DEF StatusRelease, ReservationInv, LiveIsReserved, dbVars, runnerVars
  <2> QED
    BY <1>22, <2>3, <2>4, <2>6, <2>7 DEF StatusRelease, ReservationInv, LiveIsReserved,
       WorkIsRecorded, LiveIsUp, Working, PurgeInv, Stopped, Live, dbVars, nodeVars, runnerVars
<1>23. ASSUME NEW w \in Thread \X Job, MarkRead(w) PROVE ReservationInv'
  <2>1. LiveIsReserved' /\ WorkIsRecorded' /\ LiveIsUp' /\ Unstarted' /\ EndIsTold' /\ SubmissionInv'
    BY <1>23, QuietStep DEF MarkRead, Step, ReadRunner, Live, dbVars, nodeVars, runnerVars, msgVars
  <2>2. WorkersInv'
    <3>1. UNCHANGED <<runnerVars, kw>> /\ (Step(w, "marking") \/ ReadRunner(w))
      BY <1>23 DEF MarkRead
    <3>2. CASE Step(w, "marking")
      BY <3>1, <3>2 DEF Step, ReservationInv, WorkersInv, TypeOK, CancelRecord, runnerVars
    <3>3. CASE ReadRunner(w)
      BY <3>1, <3>3 DEF ReadRunner, ReservationInv, WorkersInv, Unstarted, TypeOK, CancelRecord,
         runnerVars
    <3> QED
      BY <3>1, <3>2, <3>3
  <2>3. PurgeInv'
    BY <1>23 DEF MarkRead, Step, ReadRunner, ReservationInv, PurgeInv, Stopped, Live, TypeOK,
       dbVars, runnerVars
  <2> QED
    BY <2>1, <2>2, <2>3 DEF ReservationInv
<1>24. ASSUME NEW w \in Thread \X Job, MarkCommit(w) PROVE ReservationInv'
  <2>1. LiveIsReserved' /\ WorkIsRecorded' /\ LiveIsUp' /\ Unstarted' /\ EndIsTold' /\ SubmissionInv'
    BY <1>24, QuietStep DEF MarkCommit, Step, ReadRunner, TypeOK, Live, dbVars, nodeVars,
       runnerVars, msgVars
  <2>2. WorkersInv'
    BY <1>24 DEF MarkCommit, Step, ReadRunner, TypeOK, ReservationInv, WorkersInv, Unstarted,
       TypeOK, CancelRecord, CleanupRecord, dbVars, runnerVars
  <2>3. PurgeInv'
    BY <1>24 DEF MarkCommit, Step, ReadRunner, TypeOK, ReservationInv, PurgeInv, Stopped, Live,
       TypeOK, dbVars, runnerVars
  <2> QED
    BY <2>1, <2>2, <2>3 DEF ReservationInv
<1>25. ASSUME NEW w \in Thread \X Job, Interrupt(w) PROVE ReservationInv'
  <2>1. LiveIsReserved' /\ WorkIsRecorded' /\ LiveIsUp' /\ Unstarted' /\ EndIsTold' /\ SubmissionInv'
    BY <1>25, QuietStep DEF Interrupt, Step, TypeOK, Live, dbVars, nodeVars, runnerVars, msgVars
  <2>2. WorkersInv'
    BY <1>25 DEF Interrupt, Step, TypeOK, ReservationInv, WorkersInv, Unstarted, TypeOK,
       CancelRecord, CleanupRecord, dbVars, runnerVars
  <2>3. PurgeInv'
    BY <1>25 DEF Interrupt, Step, TypeOK, ReservationInv, PurgeInv, Stopped, Live, TypeOK, dbVars,
       runnerVars
  <2> QED
    BY <2>1, <2>2, <2>3 DEF ReservationInv
<1>26. ASSUME NEW w \in Thread \X Job, Await(w) PROVE ReservationInv'
  <2>1. LiveIsReserved' /\ WorkIsRecorded' /\ LiveIsUp' /\ Unstarted' /\ EndIsTold' /\ SubmissionInv'
    BY <1>26, QuietStep DEF Await, Step, Live, dbVars, nodeVars, runnerVars, msgVars
  <2>2. WorkersInv'
    BY <1>26 DEF Await, Step, ReservationInv, WorkersInv, Unstarted, TypeOK, CancelRecord,
       CleanupRecord, dbVars, runnerVars
  <2>3. PurgeInv'
    BY <1>26 DEF Await, Step, ReservationInv, PurgeInv, Stopped, Live, TypeOK, dbVars, runnerVars
  <2> QED
    BY <2>1, <2>2, <2>3 DEF ReservationInv
<1>27. ASSUME NEW w \in Thread \X Job, ForceKill(w) PROVE ReservationInv'
  <2>1. LiveIsUp /\ {w[2]} \in SUBSET Job /\ Kill({w[2]})
    BY <1>27 DEF ForceKill, ReservationInv
  <2>2. LiveIsReserved' /\ WorkIsRecorded' /\ LiveIsUp' /\ Unstarted' /\ EndIsTold' /\ SubmissionInv'
    BY <1>27, <2>1, KillEffect, QuietStep DEF ForceKill, Step, dbVars, nodeVars, msgVars, taskVars
  <2>3. WorkersInv'
    BY <1>27, <2>1, KillEffect DEF ForceKill, Step, ReservationInv, WorkersInv, TypeOK,
       CancelRecord, taskVars
  <2>4. PurgeInv'
    BY <1>27, <2>1, <2>2, KillEffect DEF ForceKill, Step, ReservationInv, PurgeInv, Stopped,
       TypeOK, dbVars, taskVars
  <2> QED
    BY <2>2, <2>3, <2>4 DEF ReservationInv
<1>28. ASSUME NEW w \in Thread \X Job, Delete(w) PROVE ReservationInv'
  <2>1. cont[w[2]] # "none" /\ cont[w[2]] # "up" /\ proc[w[2]] \notin Live
    BY <1>28 DEF Delete, ReservationInv, WorkersInv, LiveIsUp, Live
  <2>2. LiveIsReserved' /\ WorkIsRecorded' /\ LiveIsUp' /\ Unstarted' /\ EndIsTold' /\ SubmissionInv'
    BY <1>28, <2>1, QuietStep DEF Delete, Step, TypeOK, dbVars, msgVars
  <2>3. WorkersInv'
    BY <1>28, <2>1 DEF Delete, Step, ReservationInv, WorkersInv, TypeOK, CancelRecord, CleanupRecord
  <2>4. PurgeInv'
    BY <1>28 DEF Delete, Step, ReservationInv, PurgeInv, Stopped, dbVars
  <2> QED
    BY <2>2, <2>3, <2>4 DEF ReservationInv
<1>29. ASSUME NEW j \in Job, CleanupStart(j) PROVE ReservationInv'
  <2>1. LiveIsReserved' /\ WorkIsRecorded' /\ LiveIsUp' /\ Unstarted' /\ EndIsTold' /\ SubmissionInv'
    BY <1>29, QuietStep DEF CleanupStart, Live, dbVars, nodeVars, runnerVars, msgVars
  <2>2. WorkersInv'
    BY <1>29 DEF CleanupStart, ReservationInv, WorkersInv, Unstarted, TypeOK, CancelRecord,
       CleanupRecord, dbVars, runnerVars
  <2>3. PurgeInv'
    BY <1>29 DEF CleanupStart, ReservationInv, PurgeInv, Stopped, Live, TypeOK, dbVars, runnerVars
  <2> QED
    BY <2>1, <2>2, <2>3 DEF ReservationInv
<1>30. ASSUME NEW j \in Job, CleanupFinish(j) PROVE ReservationInv'
  <2>1. cont[j] # "none" /\ cont[j] # "up" /\ proc[j] \notin Live
    BY <1>30 DEF CleanupFinish, ReservationInv, WorkersInv, LiveIsUp, Live
  <2>2. LiveIsReserved' /\ WorkIsRecorded' /\ LiveIsUp' /\ Unstarted' /\ EndIsTold' /\ SubmissionInv'
    BY <1>30, <2>1, QuietStep DEF CleanupFinish, TypeOK, dbVars, msgVars
  <2>3. WorkersInv'
    BY <1>30, <2>1 DEF CleanupFinish, ReservationInv, WorkersInv, TypeOK, CancelRecord,
       CleanupRecord
  <2>4. PurgeInv'
    BY <1>30 DEF CleanupFinish, ReservationInv, PurgeInv, Stopped, dbVars
  <2> QED
    BY <2>2, <2>3, <2>4 DEF ReservationInv
<1>31. ASSUME NEW j \in Job, UserCancel(j) PROVE ReservationInv'
  <2>1. LiveIsReserved' /\ WorkIsRecorded' /\ LiveIsUp' /\ Unstarted' /\ EndIsTold' /\ SubmissionInv'
    BY <1>31, QuietStep DEF UserCancel, Live, dbVars, nodeVars, runnerVars, msgVars
  <2>2. WorkersInv'
    BY <1>31 DEF UserCancel, NoCancel, ReservationInv, WorkersInv, Unstarted, TypeOK,
       CancelRecord, CleanupRecord, dbVars, runnerVars
  <2>3. PurgeInv'
    BY <1>31 DEF UserCancel, ReservationInv, PurgeInv, Stopped, Live, TypeOK, dbVars, runnerVars
  <2> QED
    BY <2>1, <2>2, <2>3 DEF ReservationInv
<1>32. ASSUME NEW j \in Job, PurgeStart(j) PROVE ReservationInv'
  <2>1. LiveIsUp /\ ({j} \cap hasContainer) \in SUBSET Job /\ Kill(({j} \cap hasContainer))
    BY <1>32 DEF PurgeStart, ReservationInv
  <2>2. LiveIsReserved' /\ WorkIsRecorded' /\ LiveIsUp' /\ Unstarted' /\ EndIsTold' /\ SubmissionInv'
    BY <1>32, <2>1, KillEffect, QuietStep DEF PurgeStart, Held, dbVars, nodeVars, msgVars, taskVars
  <2>3. WorkersInv'
    BY <1>32, <2>1, KillEffect DEF PurgeStart, ReservationInv, WorkersInv, TypeOK, CancelRecord,
       taskVars
  <2>4. PurgeInv'
    BY <1>32, <2>1, <2>2, KillEffect DEF PurgeStart, Held, ReservationInv, PurgeInv,
       SubmissionInv, SubmissionOf, Stopped, dbVars, taskVars
  <2> QED
    BY <2>2, <2>3, <2>4 DEF ReservationInv
<1>33. ASSUME PurgeEnd PROVE ReservationInv'
  <2>1. SubmissionInv'
    BY <1>33, SubmissionKept, BatchAssumption DEF PurgeEnd, ReservationInv, TypeOK, dbVars,
       nodeVars, runnerVars, msgVars, taskVars
  <2>2. LiveIsReserved' /\ WorkIsRecorded' /\ LiveIsUp' /\ WorkersInv' /\ PurgeInv'
    BY <1>33, InputAssumption DEF PurgeEnd, ReservationInv, LiveIsReserved, WorkIsRecorded,
       LiveIsUp, WorkersInv, PurgeInv, Working, Stopped, Live, TypeOK, dbVars, nodeVars,
       runnerVars, msgVars, taskVars
  <2>3. Unstarted' /\ EndIsTold'
    BY <1>33 DEF PurgeEnd, ReservationInv, Unstarted, EndIsTold, PurgeInv, Stopped, Live, TypeOK,
       dbVars, nodeVars, runnerVars, msgVars, taskVars
  <2> QED
    BY <2>1, <2>2, <2>3 DEF ReservationInv
<1>34. ASSUME Crash PROVE ReservationInv'
  <2>1. IdleHdl.phase = "idle" /\ IdleHdl.job = NoJob /\ NoJob \notin Job
    BY InputAssumption DEF IdleHdl
  <2>2. SubmissionInv'
    BY <1>34 DEF Crash, ReservationInv, SubmissionInv, SubmissionOf, NewSub, dbVars, nodeVars,
       runnerVars, msgVars, taskVars
  <2>3. LiveIsReserved' /\ WorkIsRecorded' /\ LiveIsUp'
    BY <1>34 DEF Crash, ReservationInv, LiveIsReserved, WorkIsRecorded, LiveIsUp, Working, dbVars,
       nodeVars, runnerVars, msgVars, taskVars
  <2>4. Unstarted' /\ EndIsTold'
    BY <1>34, <2>1 DEF Crash, ReservationInv, Unstarted, EndIsTold, dbVars, nodeVars, runnerVars,
       msgVars, taskVars
  <2>5. WorkersInv' /\ PurgeInv'
    BY <1>34 DEF Crash, WorkersInv, PurgeInv, NoCancel, NoCleanup
  <2> QED
    BY <2>2, <2>3, <2>4, <2>5 DEF ReservationInv
<1>35. CASE UNCHANGED vars
  <2>1. SubmissionInv'
    BY <1>35, SubmissionKept, BatchAssumption DEF vars, ReservationInv, dbVars, nodeVars,
       runnerVars, msgVars, taskVars
  <2> QED
    BY <1>35, <2>1 DEF vars, ReservationInv, LiveIsReserved, WorkIsRecorded, LiveIsUp, Unstarted,
       EndIsTold, WorkersInv, PurgeInv, Working, Stopped, dbVars, nodeVars, runnerVars, msgVars,
       taskVars
<1> QED
  BY <1>1, <1>2, <1>3, <1>4, <1>5, <1>6, <1>7, <1>8, <1>9, <1>10, <1>11, <1>12, <1>13, <1>14,
     <1>15, <1>16, <1>17, <1>18, <1>19, <1>20, <1>21, <1>22, <1>23, <1>24, <1>25, <1>26, <1>27,
     <1>28, <1>29, <1>30, <1>31, <1>32, <1>33, <1>34, <1>35 DEF Next, Loops, Submission, Runner,
     Handler, Cancel, Cleanup

\* The invariant holds at first: nothing is started, reserved or asked.
LEMMA ReservationInit == Init => ReservationInv
<1> SUFFICES ASSUME Init PROVE ReservationInv
  OBVIOUS
<1>1. IdleHdl.phase = "idle" /\ IdleHdl.job = NoJob /\ NoJob \notin Job
  BY InputAssumption DEF IdleHdl
<1>2. LiveIsReserved /\ WorkIsRecorded /\ LiveIsUp
  BY DEF Init, LiveIsReserved, WorkIsRecorded, LiveIsUp, Working, Live
<1>3. Unstarted /\ EndIsTold
  BY <1>1 DEF Init, Unstarted, EndIsTold, Live, Ended
<1>4. WorkersInv /\ PurgeInv
  BY DEF Init, WorkersInv, PurgeInv, NoCancel, NoCleanup
<1>5. SubmissionInv
  BY MembersAreJobs DEF Init, SubmissionInv, SubmissionOf, NewSub
<1> QED
  BY <1>2, <1>3, <1>4, <1>5 DEF ReservationInv

\* In every reachable state of every instance the strengthening holds.
THEOREM ReservationInvariant == Spec => []ReservationInv
<1>1. ReservationInv /\ TypeOK /\ [Next]_vars => ReservationInv'
  BY ReservationStep
<1> QED
  BY <1>1, ReservationInit, TypeCorrect, PTL DEF Spec

\* A runner works only while the namespace resources of its job are reserved, whatever the
\* submissions, cancellations, purges, crashes and late messages do (simaas/rti/base.py).
THEOREM ReservationCorrect == Spec => []WorkHoldsReservation
<1>1. ReservationInv => WorkHoldsReservation
  BY DEF ReservationInv, LiveIsReserved, WorkIsRecorded, WorkHoldsReservation, Working, Live
<1> QED
  BY <1>1, ReservationInvariant, PTL

----------------------------------------------------------------------------
\* Identities

\* The runner of a job that is cleaned up has stopped, and the identity of one that works is
\* known.
IdentityInv ==
    /\ \A j \in Job : kw[j].phase # "none" => cont[j] # "none" /\ proc[j] \notin Live
    /\ WorkerIdentityKnown

\* A step that starts no runner and no cleanup, and forgets no identity.
LEMMA IdentityQuiet ==
    ASSUME IdentityInv,
           \A j \in Job : kw'[j].phase # "none" => kw[j].phase # "none",
           \A j \in Job : cont[j] # "none" => cont'[j] # "none",
           \A j \in Job : proc'[j] \in Live => proc[j] \in Live,
           \A j \in Job : Working(j)' => Working(j),
           known \subseteq known'
    PROVE  IdentityInv'
BY DEF IdentityInv, WorkerIdentityKnown

\* Killing containers is such a step.
LEMMA IdentityKilled ==
    ASSUME TypeOK, ReservationInv, IdentityInv, NEW S \in SUBSET Job, Kill(S), kw' = kw, known' = known
    PROVE  IdentityInv'
<1>1. \A j \in Job : (cont'[j] = "none" <=> cont[j] = "none") /\ (proc'[j] \in Live => proc'[j] = proc[j])
  BY KillEffect DEF ReservationInv
<1>2. \A j \in Job : Working(j)' => Working(j)
  BY <1>1 DEF Working, Live
<1> QED
  BY <1>1, <1>2, IdentityQuiet

\* Every step keeps the invariant.
LEMMA IdentityStep ==
    ASSUME TypeOK, ReservationInv, IdentityInv, [Next]_vars PROVE IdentityInv'
<1> USE DEF dbVars, nodeVars, runnerVars, msgVars, taskVars
<1>0. ASSUME UNCHANGED <<kw, known, cont, proc>> PROVE IdentityInv'
  BY <1>0, IdentityQuiet DEF Working
<1>1. ASSUME NEW b \in Batch, Submission(b) PROVE IdentityInv'
  <2>1. CASE Prepare(b) \/ CreateRecords(b) \/ RecordContainer(b) \/ LaunchFails(b) \/ CommitFailed(b)
             \/ ReleaseFailed(b)
    BY <1>0, <2>1 DEF Prepare, CreateRecords, RecordContainer, LaunchFails, CommitFailed, ReleaseFailed
  <2>2. ASSUME NEW j \in b, StartContainer(b, j) PROVE IdentityInv'
    <3>1. j \in Job /\ cont[j] = "none"
      BY <2>2, MembersAreJobs DEF StartContainer, ReservationInv, SubmissionInv, SubmissionOf
    <3>2. /\ cont' = [cont EXCEPT ![j] = "up"] /\ proc' = [proc EXCEPT ![j] = "start"]
          /\ kw' = kw /\ known' = known
      BY <2>2 DEF StartContainer
    <3>3. kw[j].phase = "none"
      BY <3>1 DEF IdentityInv
    <3> QED
      BY <3>1, <3>2, <3>3 DEF IdentityInv, WorkerIdentityKnown, Working, TypeOK
  <2>3. ASSUME NEW j \in b, PurgeMember(b, j) PROVE IdentityInv'
    <3>1. kw' = kw /\ known' = known /\ (UNCHANGED <<cont, proc>> \/ Kill({j} \cap hasContainer))
      BY <2>3 DEF PurgeMember
    <3>2. {j} \cap hasContainer \in SUBSET Job
      BY MembersAreJobs
    <3> QED
      BY <1>0, <3>1, <3>2, IdentityKilled
  <2> QED
    BY <1>1, <2>1, <2>2, <2>3 DEF Submission
<1>2. ASSUME NEW j \in Job, Runner(j) PROVE IdentityInv'
  <2>1. CASE SendHandshake(j) \/ SendStatus(j) \/ TimeOut(j)
    BY <1>0, <2>1 DEF SendHandshake, SendStatus, TimeOut
  <2>2. CASE GiveUp(j)
    <3>1. kw' = kw /\ known' = known /\ cont' = cont
          /\ (proc' = [proc EXCEPT ![j] = "quit"] \/ proc' = proc)
      BY <2>2 DEF GiveUp
    <3>2. \A k \in Job : proc'[k] \in Live => proc'[k] = proc[k]
      BY <3>1 DEF TypeOK, Live
    <3> QED
      BY <3>1, <3>2, IdentityQuiet DEF Working, Live
  <2>3. CASE Work(j)
    <3>1. PICK p \in {"run", "ok", "bad"} :
              /\ proc[j] \in {"init", "run"} /\ proc' = [proc EXCEPT ![j] = p]
              /\ kw' = kw /\ known' = known /\ cont' = cont
      BY <2>3 DEF Work
    <3>2. \A k \in Job : (proc'[k] \in Live => proc[k] \in Live) /\ (Working(k)' => Working(k))
      BY <3>1 DEF TypeOK, Live, Working
    <3> QED
      BY <3>1, <3>2, IdentityQuiet
  <2>4. CASE Exit(j) \/ Die(j)
    BY <2>4, IdentityKilled DEF Exit, Die
  <2> QED
    BY <1>2, <2>1, <2>2, <2>3, <2>4 DEF Runner
<1>3. ASSUME NEW j \in Job, NEW l, Proceed(j, l, "quit"), kw' = kw, known' = known, cont' = cont
      PROVE  IdentityInv'
  <2>1. \A k \in Job : proc'[k] \in Live => proc'[k] = proc[k]
    BY <1>3 DEF Proceed, TypeOK, Live
  <2> QED
    BY <1>3, <2>1, IdentityQuiet DEF Working, Live
<1>4. CASE Handler
  <2>1. ASSUME NEW j \in Job, NEW l \in BOOLEAN, HandshakeRead(j, l) PROVE IdentityInv'
    BY <1>0, <1>3, <2>1 DEF HandshakeRead
  <2>2. ASSUME NEW j \in Job, NEW l \in BOOLEAN, NEW s \in Pushed, StatusRead(j, s, l) PROVE IdentityInv'
    BY <1>0, <2>2 DEF StatusRead
  <2>3. CASE HandshakeCommit
    BY <1>0, <1>3, <2>3 DEF HandshakeCommit, TypeOK, HdlRecord
  <2>4. CASE HandshakeReply
    <3> DEFINE j == hdl.job
    <3>1. /\ j \in Job /\ known' = known \cup {j} /\ kw' = kw /\ cont' = cont
          /\ \/ proc' = [proc EXCEPT ![j] = "init"] /\ proc[j] = "start"
             \/ proc' = proc
      BY <2>4 DEF HandshakeReply, Proceed, TypeOK, HdlRecord
    <3>2. \A k \in Job : proc'[k] \in Live => proc[k] \in Live
      BY <3>1 DEF TypeOK, Live
    <3>3. \A k \in Job : Working(k)' => Working(k) \/ k = j
      BY <3>1 DEF TypeOK, Working
    <3> HIDE DEF j
    <3> QED
      BY <3>1, <3>2, <3>3 DEF IdentityInv, WorkerIdentityKnown
  <2>5. CASE StatusCommit
    BY <1>0, <2>5 DEF StatusCommit
  <2>6. CASE StatusCollect
    <3> DEFINE j == hdl.job
    <3>1. j \in Job /\ cont[j] # "none" /\ proc[j] \notin Live
      BY <2>6, HeldNow DEF StatusCollect, Grounded, ReservationInv
    <3>2. /\ known' = known /\ cont' = cont /\ proc' = proc
          /\ kw' = kw \/ kw' = [kw EXCEPT ![j].phase = "placeholder"]
      BY <2>6 DEF StatusCollect
    <3>3. \A k \in Job : kw'[k].phase # "none" => k = j \/ kw[k].phase # "none"
      BY <3>1, <3>2 DEF TypeOK
    <3> HIDE DEF j
    <3> QED
      BY <3>1, <3>2, <3>3 DEF IdentityInv, WorkerIdentityKnown, Working
  <2>7. CASE StatusRelease
    <3> DEFINE j == hdl.job
    <3>1. j \in Job /\ cont[j] # "none" /\ proc[j] \notin Live
      BY <2>7, HeldNow DEF StatusRelease, Grounded, ReservationInv
    <3>2. /\ known' = known /\ cont' = cont /\ proc' = proc
          /\ kw' = kw \/ kw' = [kw EXCEPT ![j].phase = "new"]
      BY <2>7 DEF StatusRelease
    <3>3. \A k \in Job : kw'[k].phase # "none" => k = j \/ kw[k].phase # "none"
      BY <3>1, <3>2 DEF TypeOK
    <3> HIDE DEF j
    <3> QED
      BY <3>1, <3>2, <3>3 DEF IdentityInv, WorkerIdentityKnown, Working
  <2> QED
    BY <1>4, <2>1, <2>2, <2>3, <2>4, <2>5, <2>6, <2>7 DEF Handler
<1>5. ASSUME NEW w \in Thread \X Job, Cancel(w) PROVE IdentityInv'
  <2>1. w[2] \in Job
    OBVIOUS
  <2>2. CASE MarkRead(w) \/ MarkCommit(w) \/ Await(w)
    BY <1>0, <2>2 DEF MarkRead, MarkCommit, Await
  <2>3. CASE Interrupt(w)
    <3>1. kw' = kw /\ known' = known /\ cont' = cont
          /\ (proc' = [proc EXCEPT ![w[2]] = "stop"] \/ proc' = proc)
      BY <2>3 DEF Interrupt
    <3>2. \A k \in Job : proc'[k] \in Live => proc'[k] = proc[k]
      BY <2>1, <3>1 DEF TypeOK, Live
    <3> QED
      BY <3>1, <3>2, IdentityQuiet DEF Working, Live
  <2>4. CASE ForceKill(w)
    BY <2>1, <2>4, IdentityKilled DEF ForceKill
  <2>5. CASE Delete(w)
    <3>1. cont[w[2]] # "up" /\ cont[w[2]] # "none"
      BY <2>5 DEF Delete, ReservationInv, WorkersInv
    <3>2. proc[w[2]] \notin Live
      BY <2>1, <3>1 DEF ReservationInv, LiveIsUp
    <3>3. kw' = kw /\ proc' = proc /\ \A k \in Job : k \in known => k \in known' \/ k = w[2]
      BY <2>5 DEF Delete
    <3>4. \A k \in Job : cont[k] # "none" => cont'[k] # "none"
      BY <2>1, <2>5 DEF Delete, TypeOK
    <3> QED
      BY <2>1, <3>2, <3>3, <3>4 DEF IdentityInv, WorkerIdentityKnown, Working, Live
  <2> QED
    BY <1>5, <2>2, <2>3, <2>4, <2>5 DEF Cancel
<1>6. ASSUME NEW j \in Job, Cleanup(j) PROVE IdentityInv'
  <2>1. CASE CleanupStart(j)
    <3>1. /\ cont' = cont /\ proc' = proc /\ kw[j].phase = "new"
          /\ \A k \in Job : k \in known => k \in known' \/ k = j
      BY <2>1 DEF CleanupStart
    <3>2. \A k \in Job : kw'[k].phase # "none" => k = j \/ kw[k].phase # "none"
      BY <2>1 DEF CleanupStart, TypeOK
    <3>3. proc[j] \notin Live /\ cont[j] # "none"
      BY <3>1 DEF IdentityInv
    <3> QED
      BY <3>1, <3>2, <3>3 DEF IdentityInv, WorkerIdentityKnown, Working, Live
  <2>2. CASE CleanupFinish(j)
    <3>1. /\ proc' = proc /\ kw[j].phase = "wait" /\ kw' = [kw EXCEPT ![j].phase = "done"]
          /\ \A k \in Job : k \in known => k \in known' \/ k = j
          /\ cont' = cont \/ cont' = [cont EXCEPT ![j] = "gone"]
      BY <2>2 DEF CleanupFinish
    <3>2. /\ \A k \in Job : kw'[k].phase # "none" => k = j \/ kw[k].phase # "none"
          /\ \A k \in Job : cont[k] # "none" => cont'[k] # "none"
      BY <3>1 DEF TypeOK
    <3>3. proc[j] \notin Live /\ cont[j] # "none"
      BY <3>1 DEF IdentityInv
    <3> QED
      BY <3>1, <3>2, <3>3 DEF IdentityInv, WorkerIdentityKnown, Working, Live
  <2> QED
    BY <1>6, <2>1, <2>2 DEF Cleanup
<1>7. ASSUME NEW j \in Job, PurgeStart(j) PROVE IdentityInv'
  BY <1>7, IdentityKilled DEF PurgeStart
<1>8. CASE PurgeEnd \/ UNCHANGED vars \/ \E j \in Job : UserCancel(j)
  BY <1>0, <1>8 DEF PurgeEnd, UserCancel, vars
<1>9. CASE Crash
  <2>1. UNCHANGED <<known, cont, proc>> /\ \A j \in Job : kw'[j].phase = "none"
    BY <1>9 DEF Crash, NoCleanup
  <2> QED
    BY <2>1 DEF IdentityInv, WorkerIdentityKnown, Working
<1> QED
  BY <1>1, <1>2, <1>4, <1>5, <1>6, <1>7, <1>8, <1>9 DEF Next, Loops

\* The identity of a working runner can be resolved, whatever is cancelled, purged, cleaned up or
\* restarted meanwhile.
THEOREM IdentityCorrect == Spec => []WorkerIdentityKnown
<1>1. Init => IdentityInv
  BY DEF Init, IdentityInv, WorkerIdentityKnown, Working, NoCleanup, Live
<1>2. TypeOK /\ ReservationInv /\ IdentityInv /\ [Next]_vars => IdentityInv'
  BY IdentityStep
<1>3. IdentityInv => WorkerIdentityKnown
  BY DEF IdentityInv
<1> QED
  BY <1>1, <1>2, <1>3, TypeCorrect, ReservationInvariant, PTL DEF Spec

----------------------------------------------------------------------------
\* Cleaning up

\* A terminal status that found no cleanup registered one, which is not yet running.
CleanupInv == hdl.phase = "release" /\ hdl.clean => kw[hdl.job].phase = "placeholder"

\* What a step may do to the cleanup of jobs: a cleanup that runs goes on, one is registered where
\* there was none, the registered one is started; or all are lost.
CleanupMoves ==
    \/ hdl' = IdleHdl /\ \A k \in Job : kw'[k] = NoCleanup
    \/ /\ hdl' = hdl \/ hdl'.phase # "release"
       /\ \/ kw' = kw
          \/ \E j \in Job : /\ kw[j].phase \notin {"none", "placeholder"}
                            /\ kw'[j].phase \notin {"none", "placeholder", "new"}
                            /\ \A k \in Job \ {j} : kw'[k] = kw[k]
    \/ /\ hdl.phase = "collect" /\ hdl'.job = hdl.job /\ hdl'.clean = (kw[hdl.job].phase = "none")
       /\ IF hdl'.clean THEN kw' = [kw EXCEPT ![hdl.job].phase = "placeholder"] ELSE kw' = kw
    \/ /\ hdl.phase = "release" /\ hdl' = IdleHdl
       /\ IF hdl.clean THEN kw' = [kw EXCEPT ![hdl.job].phase = "new"] ELSE kw' = kw

\* No step does anything else.
LEMMA CleanupSteps == ASSUME TypeOK, [Next]_vars PROVE CleanupMoves
<1> USE DEF dbVars, nodeVars, runnerVars, msgVars, taskVars
<1>0. ASSUME UNCHANGED <<kw, hdl>> PROVE CleanupMoves
  BY <1>0 DEF CleanupMoves
<1>1. ASSUME NEW b \in Batch, Submission(b) PROVE UNCHANGED <<kw, hdl>>
  BY <1>1 DEF Submission, Prepare, CreateRecords, RecordContainer, LaunchFails, CommitFailed,
              ReleaseFailed, StartContainer, PurgeMember
<1>2. ASSUME NEW j \in Job, Runner(j) \/ UserCancel(j) \/ PurgeStart(j) PROVE UNCHANGED <<kw, hdl>>
  BY <1>2 DEF Runner, SendHandshake, SendStatus, TimeOut, GiveUp, Work, Exit, Die, UserCancel, PurgeStart
<1>3. ASSUME NEW w \in Thread \X Job, Cancel(w) PROVE UNCHANGED <<kw, hdl>>
  BY <1>3 DEF Cancel, MarkRead, MarkCommit, Interrupt, Await, ForceKill, Delete
<1>4. CASE PurgeEnd \/ UNCHANGED vars
  BY <1>0, <1>4 DEF PurgeEnd, vars
<1>5. ASSUME NEW j \in Job, Cleanup(j) PROVE CleanupMoves
  <2>1. /\ hdl' = hdl /\ kw[j].phase \in {"new", "wait"}
        /\ \/ kw' = [kw EXCEPT ![j].phase = "done"]
           \/ kw' = [kw EXCEPT ![j] = [phase |-> "wait", iid |-> j \in hasIdentity]]
    BY <1>5 DEF Cleanup, CleanupStart, CleanupFinish
  <2>2. kw'[j].phase \in {"wait", "done"} /\ \A k \in Job \ {j} : kw'[k] = kw[k]
    BY <2>1 DEF TypeOK, CleanupRecord
  <2> QED
    BY <2>1, <2>2 DEF CleanupMoves
<1>6. CASE Crash
  BY <1>6 DEF Crash, CleanupMoves
<1>7. CASE Handler
  <2>1. IdleHdl.phase # "release"
    BY DEF IdleHdl
  <2>2. ASSUME NEW j \in Job, NEW l \in BOOLEAN,
               HandshakeRead(j, l) \/ \E s \in Pushed : StatusRead(j, s, l)
        PROVE  kw' = kw /\ (hdl' = hdl \/ hdl'.phase # "release")
    BY <2>2 DEF HandshakeRead, StatusRead, IdleHdl
  <2>3. CASE HandshakeCommit \/ HandshakeReply \/ StatusCommit
    <3>1. kw' = kw /\ (hdl' = IdleHdl \/ hdl' = [hdl EXCEPT !.phase = "identity"]
                       \/ hdl' = [hdl EXCEPT !.phase = "collect"])
      BY <2>3 DEF HandshakeCommit, HandshakeReply, StatusCommit
    <3>2. hdl'.phase # "release"
      BY <2>1, <3>1 DEF TypeOK, HdlRecord
    <3> QED
      BY <3>1, <3>2 DEF CleanupMoves
  <2>4. CASE StatusCollect
    <3>1. CASE hdl' = IdleHdl /\ kw' = kw
      BY <2>1, <3>1 DEF CleanupMoves
    <3>2. CASE ~(hdl' = IdleHdl /\ kw' = kw)
      <4> DEFINE clean == kw[hdl.job].phase = "none"
      <4>1. PICK kill : hdl' = [hdl EXCEPT !.phase = "release", !.kill = kill, !.clean = clean]
        BY <2>4, <3>2 DEF StatusCollect
      <4>2. /\ hdl.phase = "collect"
            /\ kw' = IF clean THEN [kw EXCEPT ![hdl.job].phase = "placeholder"] ELSE kw
        BY <2>4, <3>2 DEF StatusCollect
      <4>3. hdl'.job = hdl.job /\ hdl'.clean = clean
        <5>1. DOMAIN hdl = {"phase", "job", "req", "late", "kill", "clean"}
          BY DEF TypeOK, HdlRecord
        <5> HIDE DEF clean
        <5> QED
          BY <4>1, <5>1
      <4> QED
        BY <4>2, <4>3 DEF CleanupMoves
    <3> QED
      BY <3>1, <3>2
  <2>5. CASE StatusRelease
    BY <2>5 DEF StatusRelease, CleanupMoves
  <2> QED
    BY <1>7, <2>2, <2>3, <2>4, <2>5 DEF Handler, CleanupMoves
<1> QED
  BY <1>0, <1>1, <1>2, <1>3, <1>4, <1>5, <1>6, <1>7 DEF Next, Loops

\* Every move keeps the invariant, and starts no cleanup again that was started.
LEMMA CleanupStep ==
    ASSUME TypeOK, CleanupInv, CleanupMoves
    PROVE  /\ CleanupInv'
           /\ \A j \in Job : kw[j].phase \notin {"none", "placeholder"} =>
                  kw'[j].phase \notin {"placeholder", "new"} \/ kw'[j] = kw[j]
<1>1. IdleHdl.phase = "idle" /\ NoCleanup.phase = "none"
  BY DEF IdleHdl, NoCleanup
<1>2. hdl.phase # "idle" => hdl.job \in Job
  BY DEF TypeOK, HdlRecord
<1>3. CASE hdl' = IdleHdl /\ \A k \in Job : kw'[k] = NoCleanup
  BY <1>1, <1>3 DEF CleanupInv
<1>4. CASE (hdl' = hdl \/ hdl'.phase # "release") /\ kw' = kw
  BY <1>4 DEF CleanupInv
<1>5. ASSUME hdl' = hdl \/ hdl'.phase # "release",
             NEW j \in Job, kw[j].phase \notin {"none", "placeholder"},
             kw'[j].phase \notin {"none", "placeholder", "new"}, \A k \in Job \ {j} : kw'[k] = kw[k]
      PROVE  /\ CleanupInv'
             /\ \A k \in Job : kw[k].phase \notin {"none", "placeholder"} =>
                    kw'[k].phase \notin {"placeholder", "new"} \/ kw'[k] = kw[k]
  BY <1>2, <1>5 DEF CleanupInv
<1>6. CASE /\ hdl.phase = "collect" /\ hdl'.job = hdl.job /\ hdl'.clean = (kw[hdl.job].phase = "none")
           /\ IF hdl'.clean THEN kw' = [kw EXCEPT ![hdl.job].phase = "placeholder"] ELSE kw' = kw
  <2>1. CASE hdl'.clean
    <3>1. kw[hdl.job].phase = "none" /\ kw' = [kw EXCEPT ![hdl.job].phase = "placeholder"]
      BY <1>6, <2>1
    <3>2. hdl.job \in Job => kw'[hdl.job].phase = "placeholder"
      BY <3>1 DEF TypeOK, CleanupRecord
    <3>3. \A k \in Job \ {hdl.job} : kw'[k] = kw[k]
      BY <3>1 DEF TypeOK
    <3>4. hdl.job \in Job /\ hdl'.job = hdl.job
      BY <1>2, <1>6
    <3> QED
      BY <3>1, <3>2, <3>3, <3>4 DEF CleanupInv
  <2>2. CASE ~hdl'.clean
    BY <1>6, <2>2 DEF CleanupInv
  <2> QED
    BY <2>1, <2>2
<1>7. CASE /\ hdl.phase = "release" /\ hdl' = IdleHdl
           /\ IF hdl.clean THEN kw' = [kw EXCEPT ![hdl.job].phase = "new"] ELSE kw' = kw
  <2>1. CleanupInv'
    BY <1>1, <1>7 DEF CleanupInv
  <2>2. CASE hdl.clean
    <3>1. kw[hdl.job].phase = "placeholder" /\ kw' = [kw EXCEPT ![hdl.job].phase = "new"]
      BY <1>7, <2>2 DEF CleanupInv
    <3>2. \A k \in Job \ {hdl.job} : kw'[k] = kw[k]
      BY <3>1 DEF TypeOK
    <3> QED
      BY <2>1, <3>1, <3>2
  <2>3. CASE ~hdl.clean
    BY <1>7, <2>1, <2>3
  <2> QED
    BY <2>2, <2>3
<1> QED
  BY <1>3, <1>4, <1>5, <1>6, <1>7 DEF CleanupMoves

\* One process cleans a job up once, however often its terminal status arrives.
THEOREM CleanupCorrect == Spec => CleanupOnce
<1>1. Init => CleanupInv
  BY DEF Init, CleanupInv, IdleHdl
<1>2. TypeOK /\ CleanupInv /\ [Next]_vars => CleanupInv'
  BY CleanupSteps, CleanupStep
<1>3. TypeOK /\ CleanupInv /\ [Next]_vars =>
          [\A j \in Job : kw[j].phase \notin {"none", "placeholder"} =>
              kw'[j].phase \notin {"placeholder", "new"} \/ kw'[j] = kw[j]]_kw
  BY CleanupSteps, CleanupStep
<1> QED
  BY <1>1, <1>2, <1>3, TypeCorrect, PTL DEF Spec, CleanupOnce

----------------------------------------------------------------------------
\* The states of jobs, when no user cancels and no submission fails

\* The p2p loop has one coroutine between a read of a record and its commit; the state it read
\* is no other ending than the one it is going to commit.
StateInv ==
    /\ \A j \in Job : cw[<<"rest", j>>].phase = "none"
    /\ \A b \in Batch : sub[b].phase \notin {"purge", "commit", "release"}
    /\ \A j \in Job : cw[<<"p2p", j>>].phase = "marking" =>
           /\ hdl.phase \in {"idle", "release"}
           /\ \A k \in Job : cw[<<"p2p", k>>].phase = "marking" => k = j
           /\ state[j] \notin Terminal
    /\ hdl.phase \in {"read", "identity"} => state[hdl.job] \notin Terminal \ {hdl.req}

\* A step that ends no job and reads no record to change it.
LEMMA StateKept ==
    ASSUME StateInv,
           \A j \in Job : cw'[<<"rest", j>>].phase = "none",
           \A b \in Batch : sub'[b].phase \notin {"purge", "commit", "release"},
           \A j \in Job : cw'[<<"p2p", j>>].phase = "marking" => cw[<<"p2p", j>>].phase = "marking",
           \A j \in Job : state'[j] \in Terminal => state'[j] = state[j],
           hdl.phase # "idle" => hdl.job \in Job,
           \/ hdl' = hdl \/ hdl'.phase \in {"idle", "release"}
           \/ /\ hdl.phase = "read" /\ hdl'.phase \in {"identity", "collect"}
              /\ hdl'.job = hdl.job /\ hdl'.req = hdl.req
    PROVE  StateInv'
BY ZenonT(40) DEF StateInv

\* A cancel worker that read the record of its job does not mark it any more.
LEMMA ReadRunnerEffect ==
    ASSUME TypeOK, NEW w \in Thread \X Job, ReadRunner(w)
    PROVE  /\ cw'[w].phase \in {"interrupt", "done"}
           /\ \A v \in Thread \X Job : v # w => cw'[v] = cw[v]
<1> DEFINE phase == IF w[2] \in hasContainer THEN "interrupt" ELSE "done"
           iid == w[2] \in hasIdentity
           marked == [cw[w] EXCEPT !.phase = phase]
           read == [marked EXCEPT !.iid = iid]
<1>1. cw' = [[cw EXCEPT ![w] = marked] EXCEPT ![w] = read]
  <2>1. cw' = [cw EXCEPT ![w].phase = phase, ![w].iid = iid]
    BY DEF ReadRunner
  <2> HIDE DEF phase, iid
  <2> QED
    BY <2>1 DEF TypeOK
<1>2. DOMAIN cw[w] = {"phase", "addr", "iid"}
  BY DEF TypeOK, CancelRecord
<1>3. read.phase = phase
  <2> HIDE DEF phase, iid
  <2>1. DOMAIN marked = {"phase", "addr", "iid"} /\ marked.phase = phase
    BY <1>2
  <2> HIDE DEF marked
  <2> QED
    BY <2>1
<1>4. phase \in {"interrupt", "done"}
  OBVIOUS
<1> HIDE DEF phase, marked, read
<1> QED
  BY <1>1, <1>3, <1>4 DEF TypeOK

\* A cancel worker that moves on moves alone.
LEMMA StepEffect ==
    ASSUME TypeOK, NEW w \in Thread \X Job, NEW phase, Step(w, phase)
    PROVE  cw'[w].phase = phase /\ \A v \in Thread \X Job : v # w => cw'[v] = cw[v]
BY DEF TypeOK, Step, CancelRecord

\* What a step may do to the states of jobs.
StateMoves ==
    \/ state' = state
    \/ \E b \in Batch : /\ \A j \in b : state[j] = "none"
                        /\ state' = [j \in Job |-> IF j \in b THEN "uninitialised" ELSE state[j]]
    \/ /\ hdl.phase = "read" /\ hdl.req \in Pushed /\ state[hdl.job] # "none"
       /\ state' = [state EXCEPT ![hdl.job] = hdl.req]
    \/ \E j \in Job : /\ cw[<<"p2p", j>>].phase = "marking" /\ state[j] # "none"
                      /\ state' = [state EXCEPT ![j] = "cancelled"]
    \/ purging # NoJob /\ state' = [state EXCEPT ![purging] = "none"]

\* No step does anything else, and StateInv is inductive.
LEMMA StateStep ==
    ASSUME CancelBy = {}, ~SubmitMayFail, TypeOK, ReservationInv, StateInv, [Next]_vars
    PROVE  StateInv' /\ StateMoves
<1> USE DEF dbVars, nodeVars, runnerVars, msgVars, taskVars
<1>0. /\ hdl.phase # "idle" => hdl.job \in Job
      /\ \A w \in Thread \X Job : w[2] \in Job /\ w = <<w[1], w[2]>> /\ w[1] \in {"rest", "p2p"}
      /\ \A j \in Job, t \in Thread : <<t, j>> \in Thread \X Job
      /\ "rest" \in Thread /\ "p2p" \in Thread
      /\ IdleHdl.phase = "idle"
  BY DEF TypeOK, HdlRecord, Thread, IdleHdl
<1>1. ASSUME UNCHANGED <<state, hdl, cw>>,
             \A b \in Batch : sub'[b].phase \notin {"purge", "commit", "release"}
      PROVE  StateInv' /\ StateMoves
  BY <1>0, <1>1, StateKept DEF StateMoves, StateInv
<1>2. ASSUME UNCHANGED <<state, hdl, cw, sub>> PROVE StateInv' /\ StateMoves
  BY <1>1, <1>2 DEF StateInv
<1>3. ASSUME NEW b \in Batch, Submission(b) PROVE StateInv' /\ StateMoves
  <2>1. CASE Prepare(b) \/ RecordContainer(b)
    <3>1. UNCHANGED <<state, hdl, cw>>
      BY <2>1 DEF Prepare, RecordContainer
    <3>2. PICK phase, left :
              phase \in {"ready", "rejected", "done", "launch"} /\ Goto(b, phase, left)
      BY <2>1 DEF Prepare, RecordContainer
    <3>3. \A c \in Batch : sub'[c].phase \notin {"purge", "commit", "release"}
      BY <3>2 DEF Goto, TypeOK, StateInv
    <3> QED
      BY <1>1, <3>1, <3>3
  <2>2. ASSUME NEW j \in b, StartContainer(b, j) PROVE StateInv' /\ StateMoves
    <3>1. UNCHANGED <<state, hdl, cw>>
      BY <2>2 DEF StartContainer
    <3>3. \A c \in Batch : sub'[c].phase \notin {"purge", "commit", "release"}
      BY <2>2 DEF StartContainer, TypeOK, StateInv
    <3> QED
      BY <1>1, <3>1, <3>3
  <2>3. CASE CreateRecords(b)
    <3>1. /\ UNCHANGED <<hdl, cw>> /\ Goto(b, "launch", b) /\ sub[b].phase = "ready"
          /\ state' = [j \in Job |-> IF j \in b THEN "uninitialised" ELSE state[j]]
      BY <2>3 DEF CreateRecords
    <3>2. \A j \in b : state[j] = "none"
      BY <3>1 DEF ReservationInv, SubmissionInv, SubmissionOf
    <3>3. \A c \in Batch : sub'[c].phase \notin {"purge", "commit", "release"}
      BY <3>1 DEF Goto, TypeOK, StateInv
    <3>4. \A j \in Job : state'[j] \in Terminal => state'[j] = state[j]
      BY <3>1 DEF Terminal
    <3>5. StateInv'
      BY <1>0, <3>1, <3>3, <3>4, StateKept DEF StateInv
    <3> QED
      BY <3>1, <3>2, <3>5 DEF StateMoves
  <2>4. ~LaunchFails(b) /\ ~CommitFailed(b) /\ ~ReleaseFailed(b) /\ \A j \in b : ~PurgeMember(b, j)
    BY DEF StateInv, LaunchFails, CommitFailed, ReleaseFailed, PurgeMember
  <2> QED
    BY <1>3, <2>1, <2>2, <2>3, <2>4 DEF Submission
<1>4. ASSUME NEW j \in Job, Runner(j) \/ PurgeStart(j) PROVE UNCHANGED <<state, hdl, cw, sub>>
  BY <1>4 DEF Runner, SendHandshake, SendStatus, TimeOut, GiveUp, Work, Exit, Die, PurgeStart
<1>5. ASSUME NEW j \in Job PROVE ~UserCancel(j)
  BY DEF UserCancel
<1>6. ASSUME NEW j \in Job, Cleanup(j) PROVE UNCHANGED <<state, hdl, cw, sub>>
  BY <1>6 DEF Cleanup, CleanupStart, CleanupFinish
<1>7. CASE PurgeEnd
  <2>1. /\ purging \in Job /\ UNCHANGED <<hdl, cw, sub>> /\ purging # NoJob
        /\ state' = [state EXCEPT ![purging] = "none"]
    BY <1>7 DEF PurgeEnd, TypeOK
  <2>2. \A j \in Job : state'[j] \in Terminal => state'[j] = state[j]
    BY <2>1 DEF TypeOK, Terminal
  <2>3. StateInv'
    BY <1>0, <2>1, <2>2, StateKept DEF StateInv
  <2> QED
    BY <2>1, <2>3 DEF StateMoves
<1>8. CASE Crash
  <2>1. state' = state /\ hdl' = IdleHdl /\ \A w \in Thread \X Job : cw'[w].phase = "none"
    BY <1>8 DEF Crash, NoCancel
  <2>2. \A b \in Batch : sub'[b].phase \notin {"purge", "commit", "release"}
    BY <1>8 DEF Crash, NewSub
  <2>3. \A j \in Job, t \in Thread : cw'[<<t, j>>].phase = "none"
    BY <1>0, <2>1
  <2> QED
    BY <1>0, <2>1, <2>2, <2>3, StateKept DEF StateMoves, StateInv
<1>9. ASSUME NEW w \in Thread \X Job, Cancel(w) PROVE StateInv' /\ StateMoves
  <2> DEFINE j == w[2]
  <2>1. w = <<"p2p", j>> /\ j \in Job
    <3>1. cw[w].phase # "none"
      BY <1>9 DEF Cancel, MarkRead, MarkCommit, Interrupt, Await, ForceKill, Delete
    <3> QED
      BY <1>0, <3>1 DEF StateInv
  <2>2. hdl' = hdl /\ sub' = sub
    BY <1>9 DEF Cancel, MarkRead, MarkCommit, Interrupt, Await, ForceKill, Delete
  <2>3. ASSUME state' = state, NEW phase \in CancelPhase \ {"marking"}, cw'[w].phase = phase,
               \A v \in Thread \X Job : v # w => cw'[v] = cw[v]
        PROVE  StateInv' /\ StateMoves
    <3>1. \A k \in Job : cw'[<<"rest", k>>].phase = "none"
      <4>1. \A k \in Job : <<"rest", k>> \in Thread \X Job /\ <<"rest", k>> # w
        BY <1>0, <2>1
      <4> QED
        BY <2>3, <4>1 DEF StateInv
    <3>2. \A k \in Job : cw'[<<"p2p", k>>].phase = "marking" => cw[<<"p2p", k>>].phase = "marking"
      BY <1>0, <2>1, <2>3
    <3>3. StateInv'
      BY <1>0, <2>2, <2>3, <3>1, <3>2, StateKept DEF StateInv
    <3> QED
      BY <2>3, <3>3 DEF StateMoves
  <2>4. CASE Interrupt(w) \/ Await(w) \/ ForceKill(w) \/ Delete(w)
    <3>1. state' = state
      BY <2>4 DEF Interrupt, Await, ForceKill, Delete
    <3>2. PICK phase \in {"wait", "kill", "done", "delete"} : Step(w, phase)
      BY <2>4 DEF Interrupt, Await, ForceKill, Delete
    <3> QED
      BY <2>3, <3>1, <3>2, StepEffect DEF CancelPhase
  <2>5. CASE MarkRead(w)
    <3>1. state' = state /\ ~Held("p2p")
      BY <1>0, <2>1, <2>5 DEF MarkRead
    <3>2. CASE ReadRunner(w)
      BY <2>3, <3>1, <3>2, ReadRunnerEffect DEF CancelPhase
    <3>3. CASE state[j] \in Active /\ Step(w, "marking")
      <4>1. \A k \in Job : cw[<<"p2p", k>>].phase # "marking"
        BY <3>1 DEF Held
      <4>2. hdl.phase \in {"idle", "release"}
        BY <3>1 DEF Held, TypeOK, HdlRecord, HdlPhase
      <4>3. cw'[w].phase = "marking" /\ \A v \in Thread \X Job : v # w => cw'[v] = cw[v]
        BY <3>3, StepEffect
      <4>4. /\ \A k \in Job : cw'[<<"p2p", k>>].phase = "marking" => k = j
            /\ \A k \in Job : cw'[<<"rest", k>>].phase = "none"
        <5>1. \A k \in Job : k # j => <<"p2p", k>> # w
          BY <2>1
        <5>2. \A k \in Job : <<"rest", k>> # w
          BY <2>1
        <5> QED
          BY <1>0, <4>1, <4>3, <5>1, <5>2 DEF StateInv
      <4>5. state[j] \notin Terminal
        BY <3>3 DEF Active, Terminal
      <4> HIDE DEF j
      <4>6. StateInv'
        BY <2>2, <3>1, <4>2, <4>4, <4>5 DEF StateInv
      <4> QED
        BY <3>1, <4>6 DEF StateMoves
    <3> QED
      BY <2>5, <3>2, <3>3 DEF MarkRead
  <2>6. CASE MarkCommit(w)
    <3>1. cw[<<"p2p", j>>].phase = "marking"
      BY <2>1, <2>6 DEF MarkCommit
    <3>2. CASE state[j] = "none"
      <4>1. state' = state /\ Step(w, "done")
        BY <2>6, <3>2 DEF MarkCommit
      <4> QED
        BY <2>3, <4>1, StepEffect DEF CancelPhase
    <3>3. CASE state[j] # "none"
      <4>1. state' = [state EXCEPT ![j] = "cancelled"] /\ ReadRunner(w)
        BY <2>6, <3>3 DEF MarkCommit
      <4>2. /\ cw'[w].phase # "marking" /\ cw'[w].phase # "none"
            /\ \A v \in Thread \X Job : v # w => cw'[v] = cw[v]
        BY <4>1, ReadRunnerEffect
      <4>3. /\ \A k \in Job : cw'[<<"p2p", k>>].phase # "marking"
            /\ \A k \in Job : cw'[<<"rest", k>>].phase = "none"
        <5>1. \A k \in Job : k # j => <<"p2p", k>> # w
          BY <2>1
        <5>2. \A k \in Job : <<"rest", k>> # w
          BY <2>1
        <5>3. \A k \in Job : k # j => cw[<<"p2p", k>>].phase # "marking"
          BY <2>1, <3>1 DEF StateInv
        <5> QED
          BY <1>0, <2>1, <4>2, <5>1, <5>2, <5>3 DEF StateInv
      <4>4. hdl.phase \in {"idle", "release"}
        BY <2>1, <3>1 DEF StateInv
      <4>5. StateInv'
        BY <2>2, <4>3, <4>4 DEF StateInv
      <4>6. StateMoves
        BY <2>1, <3>1, <3>3, <4>1 DEF StateMoves
      <4> QED
        BY <4>5, <4>6
    <3> QED
      BY <3>2, <3>3
  <2> QED
    BY <1>9, <2>4, <2>5, <2>6 DEF Cancel
<1>10. CASE Handler
  <2>1. ASSUME ~Held("p2p") PROVE \A k \in Job : cw[<<"p2p", k>>].phase # "marking"
    BY <2>1 DEF Held
  <2>2. ASSUME state' = state, cw' = cw, sub' = sub,
               hdl' = hdl \/ hdl'.phase \in {"idle", "release"}
        PROVE  StateInv' /\ StateMoves
    BY <1>0, <2>2, StateKept DEF StateMoves, StateInv
  <2>3. ASSUME NEW j \in Job, NEW s \in Pushed \cup {"handshake"}, NEW l, ~Held("p2p"),
               state[j] \notin Terminal \ {s}, state' = state, cw' = cw, sub' = sub,
               hdl' = [IdleHdl EXCEPT !.phase = "read", !.job = j, !.req = s, !.late = l]
        PROVE  StateInv' /\ StateMoves
    <3>1. hdl'.phase = "read" /\ hdl'.job = j /\ hdl'.req = s
      BY <2>3 DEF IdleHdl
    <3>2. StateInv'
      BY <2>1, <2>3, <3>1 DEF StateInv
    <3> QED
      BY <2>3, <3>2 DEF StateMoves
  <2>4. ASSUME NEW j \in Job, NEW l \in BOOLEAN, HandshakeRead(j, l) PROVE StateInv' /\ StateMoves
    <3>1. /\ state' = state /\ cw' = cw /\ sub' = sub /\ ~Held("p2p")
          /\ \/ hdl' = hdl
             \/ /\ state[j] \in Active
                /\ hdl' = [IdleHdl EXCEPT !.phase = "read", !.job = j, !.req = "handshake", !.late = l]
      BY <2>4 DEF HandshakeRead
    <3>2. state[j] \in Active => state[j] \notin Terminal
      BY DEF Active, Terminal
    <3> QED
      BY <2>2, <2>3, <3>1, <3>2
  <2>5. ASSUME NEW j \in Job, NEW l \in BOOLEAN, NEW s \in Pushed, StatusRead(j, s, l)
        PROVE  StateInv' /\ StateMoves
    <3>1. /\ state' = state /\ cw' = cw /\ sub' = sub /\ ~Held("p2p")
          /\ \/ hdl' = hdl
             \/ /\ state[j] \notin Terminal \ {s}
                /\ hdl' = [IdleHdl EXCEPT !.phase = "read", !.job = j, !.req = s, !.late = l]
      BY <2>5 DEF StatusRead
    <3> QED
      BY <2>2, <2>3, <3>1
  <2>6. CASE HandshakeCommit
    <3>1. /\ state' = state /\ cw' = cw /\ sub' = sub /\ hdl.phase = "read"
          /\ hdl' = IdleHdl \/ hdl' = [hdl EXCEPT !.phase = "identity"]
      BY <2>6 DEF HandshakeCommit
    <3>2. CASE hdl' = [hdl EXCEPT !.phase = "identity"]
      <4>1. hdl'.phase = "identity" /\ hdl'.job = hdl.job /\ hdl'.req = hdl.req
        BY <3>2 DEF TypeOK, HdlRecord
      <4> QED
        BY <1>0, <3>1, <4>1, StateKept DEF StateMoves, StateInv
    <3> QED
      BY <1>0, <2>2, <3>1, <3>2
  <2>7. CASE HandshakeReply
    BY <1>0, <2>2, <2>7 DEF HandshakeReply
  <2>8. CASE StatusCommit
    <3>1. hdl.phase = "read" /\ hdl.req \in Pushed /\ cw' = cw /\ sub' = sub
      BY <2>8 DEF StatusCommit
    <3>2. CASE state[hdl.job] = "none"
      BY <1>0, <2>2, <2>8, <3>1, <3>2 DEF StatusCommit
    <3>3. CASE state[hdl.job] # "none"
      <4>1. /\ state' = [state EXCEPT ![hdl.job] = hdl.req]
            /\ hdl' = [hdl EXCEPT !.phase = "collect"] \/ hdl' = IdleHdl
        BY <2>8, <3>3 DEF StatusCommit
      <4>2. hdl'.phase \in {"collect", "idle"}
        BY <1>0, <4>1 DEF TypeOK, HdlRecord
      <4>3. \A k \in Job : cw[<<"p2p", k>>].phase # "marking"
        BY <3>1 DEF StateInv
      <4>4. StateInv'
        BY <3>1, <4>2, <4>3 DEF StateInv
      <4> QED
        BY <3>1, <3>3, <4>1, <4>4 DEF StateMoves
    <3> QED
      BY <3>2, <3>3
  <2>9. CASE StatusCollect
    <3> DEFINE kill == IF hdl.req = "failed" THEN {k \in Siblings(hdl.job) : state[k] \in Active} \ Cancelling
                       ELSE {}
               clean == kw[hdl.job].phase = "none"
    <3>1. CASE hdl' = IdleHdl /\ cw' = cw
      BY <1>0, <2>2, <2>9, <3>1 DEF StatusCollect
    <3>2. CASE ~(hdl' = IdleHdl /\ cw' = cw)
      <4>1. /\ state' = state /\ sub' = sub
            /\ hdl' = [hdl EXCEPT !.phase = "release", !.kill = kill, !.clean = clean]
            /\ cw' = [w \in Thread \X Job |->
                          IF w[1] = "p2p" /\ w[2] \in kill
                          THEN [NoCancel EXCEPT !.phase = "placeholder", !.addr = w[2] \in hasIdentity]
                          ELSE cw[w]]
        BY <2>9, <3>2 DEF StatusCollect
      <4> HIDE DEF kill, clean
      <4>2. hdl'.phase = "release"
        BY <4>1 DEF TypeOK, HdlRecord
      <4>3. \A k \in Job : cw'[<<"rest", k>>] = cw[<<"rest", k>>]
        BY <1>0, <4>1
      <4>4. ASSUME NEW k \in Job, cw'[<<"p2p", k>>].phase = "marking"
            PROVE  cw[<<"p2p", k>>].phase = "marking"
        <5>1. [NoCancel EXCEPT !.phase = "placeholder", !.addr = k \in hasIdentity].phase # "marking"
          BY DEF NoCancel
        <5> QED
          BY <1>0, <4>1, <4>4, <5>1
      <4> QED
        BY <1>0, <4>1, <4>2, <4>3, <4>4, StateKept DEF StateMoves, StateInv
    <3> QED
      BY <3>1, <3>2
  <2>10. CASE StatusRelease
    <3>1. /\ state' = state /\ sub' = sub /\ hdl' = IdleHdl
          /\ cw' = [w \in Thread \X Job |->
                        IF w[1] = "p2p" /\ w[2] \in hdl.kill THEN [cw[w] EXCEPT !.phase = "new"] ELSE cw[w]]
      BY <2>10 DEF StatusRelease
    <3>2. \A k \in Job : cw'[<<"rest", k>>] = cw[<<"rest", k>>]
      BY <1>0, <3>1
    <3>3. ASSUME NEW k \in Job, cw'[<<"p2p", k>>].phase = "marking"
          PROVE  cw[<<"p2p", k>>].phase = "marking"
      <4>1. [cw[<<"p2p", k>>] EXCEPT !.phase = "new"].phase # "marking"
        BY <1>0 DEF TypeOK, CancelRecord
      <4> QED
        BY <1>0, <3>1, <3>3, <4>1
    <3> QED
      BY <1>0, <3>1, <3>2, <3>3, StateKept DEF StateMoves, StateInv
  <2> QED
    BY <1>10, <2>4, <2>5, <2>6, <2>7, <2>8, <2>9, <2>10 DEF Handler
<1>11. CASE UNCHANGED vars
  BY <1>2, <1>11 DEF vars
<1> QED
  BY <1>2, <1>3, <1>4, <1>5, <1>6, <1>7, <1>8, <1>9, <1>10, <1>11 DEF Next, Loops

\* At first there is nothing to commit.
LEMMA StateInit == Init => StateInv
<1> SUFFICES ASSUME Init PROVE StateInv
  OBVIOUS
<1>1. /\ IdleHdl.phase = "idle" /\ NoCancel.phase = "none" /\ NewSub.phase = "new"
      /\ \A j \in Job, t \in Thread : <<t, j>> \in Thread \X Job
      /\ "rest" \in Thread /\ "p2p" \in Thread
  BY DEF NoCancel, NewSub, IdleHdl, Thread
<1>2. \A j \in Job, t \in Thread : cw[<<t, j>>].phase = "none"
  BY <1>1 DEF Init
<1> QED
  BY <1>1, <1>2 DEF Init, StateInv

\* While no user cancels and no submission fails, a job that ended stays as it ended until its
\* record is purged: the check and the commit of a status are one turn of the p2p loop.
THEOREM TerminalCorrect ==
    ASSUME CancelBy = {}, ~SubmitMayFail PROVE Spec => TerminalIsFinal
<1>1. TypeOK /\ ReservationInv /\ StateInv /\ [Next]_vars => StateInv'
  BY StateStep
<1>2. TypeOK /\ ReservationInv /\ StateInv /\ [Next]_vars =>
          [\A j \in Job : state[j] \in Terminal => state'[j] \in {state[j], "none"}]_state
  <2> SUFFICES ASSUME TypeOK, ReservationInv, StateInv, [Next]_vars, NEW j \in Job, state[j] \in Terminal
               PROVE  state'[j] \in {state[j], "none"}
    OBVIOUS
  <2>1. StateMoves /\ j \in Job
    BY StateStep
  <2>2. ASSUME NEW b \in Batch, \A k \in b : state[k] = "none",
               state' = [k \in Job |-> IF k \in b THEN "uninitialised" ELSE state[k]]
        PROVE  state'[j] = state[j]
    BY <2>2 DEF Terminal
  <2>3. CASE /\ hdl.phase = "read" /\ hdl.req \in Pushed
             /\ state' = [state EXCEPT ![hdl.job] = hdl.req]
    BY <2>3 DEF StateInv, TypeOK
  <2>4. ASSUME NEW k \in Job, cw[<<"p2p", k>>].phase = "marking",
               state' = [state EXCEPT ![k] = "cancelled"]
        PROVE  state'[j] = state[j]
    BY <2>4 DEF StateInv, TypeOK
  <2>5. CASE purging # NoJob /\ state' = [state EXCEPT ![purging] = "none"]
    BY <2>5 DEF TypeOK
  <2> QED
    BY <2>1, <2>2, <2>3, <2>4, <2>5 DEF StateMoves
<1> QED
  BY <1>1, <1>2, StateInit, TypeCorrect, ReservationInvariant, PTL DEF Spec, TerminalIsFinal

\* ... and the identity of no runner is registered once its job has ended.
THEOREM NoIdentityCorrect ==
    ASSUME CancelBy = {}, ~SubmitMayFail PROVE Spec => NoIdentityAfterEnd
<1>1. TypeOK /\ ReservationInv /\ StateInv /\ [Next]_vars => StateInv'
  BY StateStep
<1>2. TypeOK /\ ReservationInv /\ StateInv /\ [Next]_vars =>
          [\A j \in Job : j \in known' \ known => state[j] \notin Terminal]_known
  <2> SUFFICES ASSUME TypeOK, ReservationInv, StateInv, [Next]_vars, NEW j \in Job, j \in known' \ known
               PROVE  state[j] \notin Terminal
    OBVIOUS
  <2>1. hdl.phase = "identity" /\ j = hdl.job
    <3>1. CASE HandshakeReply
      BY <3>1 DEF HandshakeReply
    <3>2. ASSUME ~HandshakeReply PROVE known' \subseteq known
      BY ZenonT(40), <3>2 DEF Next, Loops, Submission, Prepare, CreateRecords, RecordContainer, LaunchFails, CommitFailed,
              ReleaseFailed, StartContainer, PurgeMember, Runner, SendHandshake, SendStatus, TimeOut,
              GiveUp, Work, Exit, Die, Handler, HandshakeRead, StatusRead, HandshakeCommit, StatusCommit,
              StatusCollect, StatusRelease, Cancel, MarkRead, MarkCommit, Interrupt, Await, ForceKill,
              Delete, Cleanup, CleanupStart, CleanupFinish, PurgeStart, PurgeEnd, UserCancel, Crash,
              vars, dbVars, nodeVars, runnerVars, msgVars, taskVars
    <3> QED
      BY <3>1, <3>2
  <2>2. hdl.req = "handshake"
    BY <2>1 DEF ReservationInv, EndIsTold
  <2> QED
    BY <2>1, <2>2 DEF StateInv, Terminal
<1> QED
  BY <1>1, <1>2, StateInit, TypeCorrect, ReservationInvariant, PTL DEF Spec, NoIdentityAfterEnd

----------------------------------------------------------------------------
\* The jobs behave as JobState says, when nobody but their runners acts on them

FailedSibling(j) == \E k \in Siblings(j) : state[k] = "failed"

\* A job is cancelled because another member of its batch has failed.
CascadeInv ==
    /\ purging = NoJob
    /\ \A j \in Job : cw[<<"p2p", j>>].phase \in {"placeholder", "new", "marking"} => FailedSibling(j)
    /\ hdl.phase = "collect" /\ hdl.req = "failed" => state[hdl.job] = "failed"
    /\ hdl.phase = "release" => \A k \in hdl.kill : FailedSibling(k)

\* Members of a batch are each other's siblings, and jobs.
LEMMA SiblingsMutual ==
    ASSUME NEW j \in Job, NEW k, k \in Siblings(j)
    PROVE  j \in Siblings(k) /\ k \in Job
<1>1. k # j /\ \E b \in {c \in Batch : j \in c} : k \in b
  BY Zenon DEF Siblings
<1>2. PICK b \in Batch : j \in b /\ k \in b
  BY <1>1
<1>3. k \in Job
  BY <1>2, MembersAreJobs
<1>4. j \in UNION {c \in Batch : k \in c}
  <2>1. b \in {c \in Batch : k \in c}
    BY <1>2
  <2> QED
    BY <1>2, <2>1, Zenon
<1> QED
  BY <1>1, <1>3, <1>4, Zenon DEF Siblings

\* A failure stays.
LEMMA FailureStays ==
    ASSUME TypeOK, StateInv, StateMoves, purging = NoJob
    PROVE  /\ \A j \in Job : state[j] = "failed" => state'[j] = "failed"
           /\ \A j \in Job : FailedSibling(j) => FailedSibling(j)'
<1>1. ASSUME NEW j \in Job, state[j] = "failed" PROVE state'[j] = "failed"
  <2>1. ASSUME NEW b \in Batch, \A k \in b : state[k] = "none",
               state' = [k \in Job |-> IF k \in b THEN "uninitialised" ELSE state[k]]
        PROVE  state'[j] = state[j]
    BY <1>1, <2>1
  <2>2. CASE /\ hdl.phase = "read" /\ hdl.req \in Pushed
             /\ state' = [state EXCEPT ![hdl.job] = hdl.req]
    BY <1>1, <2>2 DEF StateInv, TypeOK, Terminal
  <2>3. ASSUME NEW k \in Job, cw[<<"p2p", k>>].phase = "marking",
               state' = [state EXCEPT ![k] = "cancelled"]
        PROVE  state'[j] = state[j]
    BY <1>1, <2>3 DEF StateInv, TypeOK, Terminal
  <2> QED
    BY <1>1, <2>1, <2>2, <2>3 DEF StateMoves
<1>2. ASSUME NEW j \in Job, FailedSibling(j) PROVE FailedSibling(j)'
  <2>1. PICK k \in Siblings(j) : state[k] = "failed"
    BY <1>2 DEF FailedSibling
  <2>2. state'[k] = "failed"
    BY <1>1, <2>1, SiblingsMutual
  <2> QED
    BY <2>2 DEF FailedSibling, Siblings
<1> QED
  BY <1>1, <1>2

\* A step that plans no cancellation.
LEMMA CascadeKept ==
    ASSUME TypeOK, StateInv, StateMoves, CascadeInv, purging' = NoJob,
           \A j \in Job : cw'[<<"p2p", j>>].phase \in {"placeholder", "new", "marking"} =>
               cw[<<"p2p", j>>].phase \in {"placeholder", "new", "marking"},
           hdl' = hdl \/ hdl'.phase \notin {"collect", "release"}
    PROVE  CascadeInv'
<1>1. /\ \A j \in Job : state[j] = "failed" => state'[j] = "failed"
      /\ \A j \in Job : FailedSibling(j) => FailedSibling(j)'
  BY FailureStays DEF CascadeInv
<1>2. hdl.phase # "idle" => hdl.job \in Job
  BY DEF TypeOK, HdlRecord
<1>3. hdl.kill \subseteq Job
  BY DEF TypeOK, HdlRecord
<1> QED
  BY <1>1, <1>2, <1>3 DEF CascadeInv

\* Every step keeps it.
LEMMA CascadeStep ==
    ASSUME CancelBy = {}, PurgeBy = {}, ~SubmitMayFail,
           TypeOK, ReservationInv, StateInv, CascadeInv, [Next]_vars
    PROVE  CascadeInv'
<1> USE DEF dbVars, nodeVars, runnerVars, msgVars, taskVars
<1>0. StateMoves /\ StateInv'
  BY StateStep
<1>1. /\ \A j \in Job : state[j] = "failed" => state'[j] = "failed"
      /\ \A j \in Job : FailedSibling(j) => FailedSibling(j)'
  BY <1>0, FailureStays DEF CascadeInv
<1>2. /\ hdl.phase # "idle" => hdl.job \in Job
      /\ hdl.kill \subseteq Job
      /\ \A w \in Thread \X Job : w[2] \in Job /\ w = <<w[1], w[2]>>
      /\ \A j \in Job : <<"p2p", j>> \in Thread \X Job
      /\ IdleHdl.phase = "idle"
  BY DEF TypeOK, HdlRecord, Thread, IdleHdl
<1>3. ASSUME UNCHANGED <<hdl, cw, purging>> PROVE CascadeInv'
  BY <1>0, <1>3, CascadeKept DEF CascadeInv
<1>4. ASSUME NEW b \in Batch, Submission(b) PROVE UNCHANGED <<hdl, cw, purging>>
  BY <1>4 DEF Submission, Prepare, CreateRecords, RecordContainer, LaunchFails, CommitFailed,
              ReleaseFailed, StartContainer, PurgeMember
<1>5. ASSUME NEW j \in Job, Runner(j) \/ Cleanup(j) PROVE UNCHANGED <<hdl, cw, purging>>
  BY <1>5 DEF Runner, SendHandshake, SendStatus, TimeOut, GiveUp, Work, Exit, Die,
              Cleanup, CleanupStart, CleanupFinish
<1>6. /\ ~PurgeEnd
      /\ \A j \in Job : ~UserCancel(j) /\ ~PurgeStart(j)
  BY DEF PurgeEnd, UserCancel, PurgeStart, CascadeInv
<1>7. CASE Crash
  <2>1. hdl' = IdleHdl /\ purging' = NoJob /\ \A w \in Thread \X Job : cw'[w].phase = "none"
    BY <1>7 DEF Crash, NoCancel
  <2> QED
    BY <1>0, <1>2, <2>1, CascadeKept
<1>8. ASSUME NEW w \in Thread \X Job, Cancel(w) PROVE CascadeInv'
  <2>1. hdl' = hdl /\ purging' = purging
    BY <1>8 DEF Cancel, MarkRead, MarkCommit, Interrupt, Await, ForceKill, Delete
  <2>2. \/ \E phase \in {"wait", "kill", "done", "delete"} : Step(w, phase)
        \/ ReadRunner(w)
        \/ Step(w, "marking") /\ cw[w].phase = "new"
    BY <1>8 DEF Cancel, MarkRead, MarkCommit, Interrupt, Await, ForceKill, Delete
  <2>3. \/ cw'[w].phase \notin {"placeholder", "new", "marking"}
        \/ cw[w].phase = "new"
    BY <2>2, StepEffect, ReadRunnerEffect
  <2>4. \A v \in Thread \X Job : v # w => cw'[v] = cw[v]
    BY <2>2, StepEffect, ReadRunnerEffect
  <2>5. \A j \in Job : cw'[<<"p2p", j>>].phase \in {"placeholder", "new", "marking"} =>
                           cw[<<"p2p", j>>].phase \in {"placeholder", "new", "marking"}
    BY <1>2, <2>3, <2>4
  <2> QED
    BY <1>0, <2>1, <2>5, CascadeKept DEF CascadeInv
<1>9. CASE Handler
  <2>1. ASSUME cw' = cw, purging' = purging, hdl' = hdl \/ hdl'.phase \notin {"collect", "release"}
        PROVE  CascadeInv'
    BY <1>0, <2>1, CascadeKept DEF CascadeInv
  <2>2. ASSUME NEW j \in Job, NEW l \in BOOLEAN,
               HandshakeRead(j, l) \/ \E s \in Pushed : StatusRead(j, s, l)
        PROVE  CascadeInv'
    <3>1. cw' = cw /\ purging' = purging /\ (hdl' = hdl \/ hdl'.phase \notin {"collect", "release"})
      BY <2>2 DEF HandshakeRead, StatusRead, IdleHdl
    <3> QED
      BY <2>1, <3>1
  <2>3. CASE HandshakeCommit \/ HandshakeReply
    <3>1. /\ cw' = cw /\ purging' = purging
          /\ hdl' = IdleHdl \/ hdl' = [hdl EXCEPT !.phase = "identity"]
      BY <2>3 DEF HandshakeCommit, HandshakeReply
    <3>2. hdl'.phase \notin {"collect", "release"}
      BY <1>2, <3>1 DEF TypeOK, HdlRecord
    <3> QED
      BY <2>1, <3>1, <3>2
  <2>4. CASE StatusCommit
    <3>1. /\ cw' = cw /\ purging' = purging
          /\ \/ hdl' = IdleHdl
             \/ /\ hdl' = [hdl EXCEPT !.phase = "collect"] /\ hdl.job \in Job
                /\ state' = [state EXCEPT ![hdl.job] = hdl.req]
      BY <1>2, <2>4 DEF StatusCommit
    <3>2. CASE hdl' = IdleHdl
      BY <1>2, <2>1, <3>1, <3>2
    <3>3. CASE /\ hdl' = [hdl EXCEPT !.phase = "collect"] /\ hdl.job \in Job
               /\ state' = [state EXCEPT ![hdl.job] = hdl.req]
      <4>1. hdl'.phase = "collect" /\ hdl'.job = hdl.job /\ hdl'.req = hdl.req
        BY <3>3 DEF TypeOK, HdlRecord
      <4>2. state'[hdl.job] = hdl.req
        BY <3>3 DEF TypeOK
      <4> QED
        BY <1>1, <3>1, <4>1, <4>2 DEF CascadeInv
    <3> QED
      BY <3>1, <3>2, <3>3
  <2>5. CASE StatusCollect
    <3> DEFINE kill == IF hdl.req = "failed" THEN {k \in Siblings(hdl.job) : state[k] \in Active} \ Cancelling
                       ELSE {}
               clean == kw[hdl.job].phase = "none"
    <3>1. CASE hdl' = IdleHdl /\ cw' = cw
      BY <1>2, <2>1, <2>5, <3>1 DEF StatusCollect
    <3>2. CASE ~(hdl' = IdleHdl /\ cw' = cw)
      <4>1. /\ state' = state /\ purging' = purging /\ hdl.phase = "collect"
            /\ hdl' = [hdl EXCEPT !.phase = "release", !.kill = kill, !.clean = clean]
            /\ cw' = [w \in Thread \X Job |->
                          IF w[1] = "p2p" /\ w[2] \in kill
                          THEN [NoCancel EXCEPT !.phase = "placeholder", !.addr = w[2] \in hasIdentity]
                          ELSE cw[w]]
        BY <2>5, <3>2 DEF StatusCollect
      <4>2. PICK dead \in {kill} : dead = kill
        OBVIOUS
      <4>3. \A k \in dead : FailedSibling(k)
        <5>1. ASSUME NEW k \in dead PROVE FailedSibling(k)
          <6>1. hdl.req = "failed" /\ k \in Siblings(hdl.job)
            BY <4>2, <5>1
          <6>2. state[hdl.job] = "failed" /\ hdl.job \in Job
            BY <1>2, <4>1, <6>1 DEF CascadeInv
          <6>3. hdl.job \in Siblings(k)
            BY <6>1, <6>2, SiblingsMutual
          <6> QED
            BY <6>2, <6>3 DEF FailedSibling
        <5> QED
          BY <5>1
      <4>4. dead \subseteq Job
        BY <1>2, <4>1, <4>2, SiblingsMutual
      <4>5. /\ hdl' = [hdl EXCEPT !.phase = "release", !.kill = dead, !.clean = clean]
            /\ cw' = [w \in Thread \X Job |->
                          IF w[1] = "p2p" /\ w[2] \in dead
                          THEN [NoCancel EXCEPT !.phase = "placeholder", !.addr = w[2] \in hasIdentity]
                          ELSE cw[w]]
        BY <4>1, <4>2
      <4> HIDE DEF kill, clean
      <4>6. hdl'.phase = "release" /\ hdl'.kill = dead
        BY <4>5 DEF TypeOK, HdlRecord
      <4>7. \A k \in Job : k \in dead \/ cw'[<<"p2p", k>>] = cw[<<"p2p", k>>]
        BY <1>2, <4>5
      <4> QED
        BY <1>1, <4>1, <4>3, <4>4, <4>6, <4>7 DEF CascadeInv
    <3> QED
      BY <3>1, <3>2
  <2>6. CASE StatusRelease
    <3>1. /\ purging' = purging /\ hdl' = IdleHdl /\ hdl.phase = "release"
          /\ cw' = [w \in Thread \X Job |->
                        IF w[1] = "p2p" /\ w[2] \in hdl.kill THEN [cw[w] EXCEPT !.phase = "new"] ELSE cw[w]]
      BY <2>6 DEF StatusRelease
    <3>2. \A k \in Job : k \in hdl.kill \/ cw'[<<"p2p", k>>] = cw[<<"p2p", k>>]
      BY <1>2, <3>1
    <3>3. \A k \in hdl.kill : FailedSibling(k)'
      BY <1>1, <1>2, <3>1 DEF CascadeInv
    <3> QED
      BY <1>1, <1>2, <3>1, <3>2, <3>3 DEF CascadeInv
  <2> QED
    BY <1>9, <2>2, <2>3, <2>4, <2>5, <2>6 DEF Handler
<1>10. CASE UNCHANGED vars
  BY <1>3, <1>10 DEF vars
<1> QED
  BY <1>3, <1>4, <1>5, <1>6, <1>7, <1>8, <1>9, <1>10 DEF Next, Loops

\* While no user acts and no submission fails, the custodian's records of jobs change as JobState
\* says: every step is a step of it, in particular no job is cancelled unless a member of its batch
\* failed. (That the cancellation does happen is checked by TLC.)
THEOREM StatesRefined ==
    ASSUME CancelBy = {}, PurgeBy = {}, ~SubmitMayFail
    PROVE  Spec => JS!Init /\ [][JS!Next]_state
<1>1. Init => JS!Init /\ CascadeInv
  BY DEF Init, JS!Init, CascadeInv, NoCancel, IdleHdl, Thread
<1>2. TypeOK /\ ReservationInv /\ StateInv /\ CascadeInv /\ [Next]_vars => StateInv' /\ CascadeInv'
  BY StateStep, CascadeStep
<1>3. TypeOK /\ ReservationInv /\ StateInv /\ CascadeInv /\ [Next]_vars => [JS!Next]_state
  <2> SUFFICES ASSUME TypeOK, ReservationInv, StateInv, CascadeInv, [Next]_vars, state' # state
               PROVE  JS!Next
    OBVIOUS
  <2>1. StateMoves
    BY StateStep
  <2>2. ASSUME NEW b \in Batch, \A k \in b : state[k] = "none",
               state' = [k \in Job |-> IF k \in b THEN "uninitialised" ELSE state[k]]
        PROVE  JS!Next
    BY <2>2 DEF JS!Next, JS!Submit
  <2>3. CASE /\ hdl.phase = "read" /\ hdl.req \in Pushed /\ state[hdl.job] # "none"
             /\ state' = [state EXCEPT ![hdl.job] = hdl.req]
    <3>1. hdl.job \in Job /\ state[hdl.job] \in Active \cup Terminal
      BY <2>3 DEF TypeOK, HdlRecord
    <3>2. CASE state[hdl.job] \in Active
      BY <2>3, <3>1, <3>2 DEF JS!Next, JS!Report, JS!Active, Active, Pushed
    <3>3. CASE state[hdl.job] \in Terminal
      <4>1. state[hdl.job] = hdl.req
        BY <2>3, <3>3 DEF StateInv
      <4> QED
        BY <2>3, <3>1, <4>1 DEF TypeOK
    <3> QED
      BY <3>1, <3>2, <3>3
  <2>4. ASSUME NEW j \in Job, cw[<<"p2p", j>>].phase = "marking", state[j] # "none",
               state' = [state EXCEPT ![j] = "cancelled"]
        PROVE  JS!Next
    <3>1. state[j] \in Active
      BY ZenonT(40), <2>4 DEF StateInv, TypeOK
    <3>2. FailedSibling(j)
      BY <2>4 DEF CascadeInv
    <3>3. JS!Cascade(j)
      BY <2>4, <3>1, <3>2 DEF JS!Cascade, JS!Others, JS!Active, Active, FailedSibling, Siblings
    <3> QED
      BY <3>3 DEF JS!Next
  <2> QED
    BY <2>1, <2>2, <2>3, <2>4 DEF StateMoves, CascadeInv
<1> QED
  BY <1>1, <1>2, <1>3, StateInit, TypeCorrect, ReservationInvariant, PTL DEF Spec
=============================================================================
