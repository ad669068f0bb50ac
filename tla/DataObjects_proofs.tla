--------------------------- MODULE DataObjects_proofs ---------------------------
(* Proofs about DataObjects: its types, that records and content files       *)
(* belong together, that uploads in parts arrive whole, and that rights hold *)
(* at the moment of a step, for any objects, contents, users and uploads.    *)
EXTENDS DataObjects, TLAPS

Served == [op : Ops, pc : Pcs, obj : Object \cup {NoRecord}, by : User \cup {NoRecord},
           arg : User \cup {NoRecord}, fresh : BOOLEAN]

\* an operation that names a user has one
ArgumentsTyped ==
    \A t \in Task : th[t].pc = "start" /\ th[t].op \in {"grant", "revoke", "transfer"} =>
        th[t].arg \in User

TypeInv == TypeOK /\ ArgumentsTyped

\* the work of the other threads, as far as it matters
OthersKept(t) ==
    \A s \in Task \ {t} : th'[s].pc = th[s].pc /\ th'[s].obj = th[s].obj

-----------------------------------------------------------------------------
(* Types *)

\* A thread that serves a request goes on with it.
LEMMA GoesOn ==
    ASSUME TypeInv, NEW t \in Task, ~ At(t, "idle"), NEW pc \in Pcs \ {"start"}, NEW o,
           th' = To(t, pc) \/ th' = Staling(To(t, pc), t, o)
    PROVE  /\ th' \in [Task -> Served] /\ ArgumentsTyped'
           /\ \A s \in Task : ~ At(s, "idle")' => th'[s].obj \in Object
           /\ OthersKept(t) /\ th'[t].pc = pc /\ th'[t].obj = th[t].obj
<1>1. th \in [Task -> Served]
  BY DEF TypeInv, TypeOK, Served
<1>2. \A r \in Served : [r EXCEPT !.pc = pc] \in Served /\ [r EXCEPT !.fresh = FALSE] \in Served
  BY DEF Served
<1>3. \A r \in Served : /\ [r EXCEPT !.pc = pc].pc = pc
                        /\ [r EXCEPT !.pc = pc].obj = r.obj
                        /\ [r EXCEPT !.fresh = FALSE].pc = r.pc
                        /\ [r EXCEPT !.fresh = FALSE].obj = r.obj
                        /\ [r EXCEPT !.fresh = FALSE].op = r.op
                        /\ [r EXCEPT !.fresh = FALSE].arg = r.arg
  BY DEF Served
<1>4. /\ To(t, pc) \in [Task -> Served]
      /\ To(t, pc)[t].pc = pc /\ To(t, pc)[t].obj = th[t].obj
      /\ \A s \in Task \ {t} : To(t, pc)[s] = th[s]
  BY <1>1, <1>2, <1>3 DEF To
<1>5. /\ th' \in [Task -> Served]
      /\ \A s \in Task : /\ th'[s].pc = To(t, pc)[s].pc /\ th'[s].obj = To(t, pc)[s].obj
                         /\ th'[s].op = To(t, pc)[s].op /\ th'[s].arg = To(t, pc)[s].arg
  <2>1. CASE th' = To(t, pc)
    BY <1>4, <2>1
  <2>2. CASE th' = Staling(To(t, pc), t, o)
    BY <1>2, <1>3, <1>4, <2>2 DEF Staling
  <2> QED
    BY <2>1, <2>2
<1> QED
  BY ZenonT(40), <1>4, <1>5 DEF TypeInv, TypeOK, ArgumentsTyped, At, OthersKept

\* A thread ends its request.
LEMMA Ends ==
    ASSUME TypeInv, NEW t \in Task, th' = Done(t)
    PROVE  /\ th' \in [Task -> Served] /\ ArgumentsTyped'
           /\ \A s \in Task : ~ At(s, "idle")' => th'[s].obj \in Object
           /\ OthersKept(t) /\ th'[t].pc = "idle"
<1>1. Idle \in Served /\ Idle.pc = "idle"
  BY DEF Idle, Served, Ops, OwnerOps, ManageOps, Pcs
<1>2. th \in [Task -> Served]
  BY DEF TypeInv, TypeOK, Served
<1> QED
  BY <1>1, <1>2 DEF Done, TypeInv, TypeOK, ArgumentsTyped, At, OthersKept

\* A thread takes a request.
LEMMA Begins ==
    ASSUME TypeInv, NEW t \in Task, NEW r \in Served, r.obj \in Object,
           r.op \in {"grant", "revoke", "transfer"} => r.arg \in User,
           th' = [th EXCEPT ![t] = r]
    PROVE  /\ th' \in [Task -> Served] /\ ArgumentsTyped'
           /\ \A s \in Task : ~ At(s, "idle")' => th'[s].obj \in Object
           /\ OthersKept(t) /\ th'[t] = r
BY DEF TypeInv, TypeOK, ArgumentsTyped, At, OthersKept, Served

\* The request of an upload that is added.
LEMMA AddingBegins ==
    ASSUME TypeInv, NEW t \in Task, NEW o \in Object, th' = Adding(t, o)
    PROVE  /\ th' \in [Task -> Served] /\ ArgumentsTyped'
           /\ \A s \in Task : ~ At(s, "idle")' => th'[s].obj \in Object
           /\ OthersKept(t) /\ th'[t].pc = "store"
<1> DEFINE r == [Idle EXCEPT !.pc = "store", !.obj = o]
<1>1. r \in Served /\ r.obj \in Object /\ r.op = "add" /\ r.pc = "store"
  BY DEF Idle, Served, Ops, OwnerOps, ManageOps, Pcs
<1>2. th' = [th EXCEPT ![t] = r]
  BY DEF Adding
<1> HIDE DEF r
<1> QED
  BY <1>1, <1>2, Begins

\* The facts of TypeInv that a step leaves alone.
RestTyped ==
    /\ rec' \in [Object -> Records \cup {NoRecord}] /\ file' \subseteq Content
    /\ upload' \in [Object -> [idx : Int, written : Seq(Nat), open : BOOLEAN]]
    /\ added' \subseteq Object /\ spoilt' \subseteq Content /\ stranded' \subseteq Content
    /\ crashes' \in 0..MaxCrashes

\* The types of the threads and those of the rest make up TypeInv.
LEMMA TypeFrom ==
    ASSUME th' \in [Task -> Served], ArgumentsTyped', RestTyped,
           \A s \in Task : ~ At(s, "idle")' => th'[s].obj \in Object
    PROVE  TypeInv'
BY DEF TypeInv, TypeOK, RestTyped, Served

\* Nothing has been requested yet.
LEMMA TypeInit == Init => TypeInv
<1> SUFFICES ASSUME Init PROVE TypeInv
  OBVIOUS
<1>1. Idle \in Served /\ Idle.pc = "idle"
  BY DEF Idle, Served, Ops, OwnerOps, ManageOps, Pcs
<1>2. NoUpload \in [idx : Int, written : Seq(Nat), open : BOOLEAN]
  BY DEF NoUpload
<1>3. th \in [Task -> Served] /\ \A t \in Task : th[t].pc = "idle"
  BY <1>1 DEF Init
<1>4. upload \in [Object -> [idx : Int, written : Seq(Nat), open : BOOLEAN]]
  BY <1>2 DEF Init
<1> QED
  BY <1>3, <1>4, ObjectsAssumption DEF Init, TypeInv, TypeOK, ArgumentsTyped, At, Served

\* The steps of uploads.
LEMMA UploadTypes == ASSUME TypeInv, Upload PROVE TypeInv'
<1>0. /\ \A o \in Object : upload[o] \in [idx : Int, written : Seq(Nat), open : BOOLEAN]
      /\ Parts \in [Object -> Nat \ {0}] /\ "rest" \in Task
  BY ObjectsAssumption DEF TypeInv, TypeOK, Task, Thread
<1>1. ASSUME NEW o \in Object, FirstPart(o) PROVE TypeInv'
  <2>1. [idx |-> 0, written |-> <<0>>, open |-> TRUE] \in
          [idx : Int, written : Seq(Nat), open : BOOLEAN]
    OBVIOUS
  <2>2. UNCHANGED <<rec, file, th, added, spoilt, stranded, crashes>>
        /\ upload' \in [Object -> [idx : Int, written : Seq(Nat), open : BOOLEAN]]
    BY <1>1, <2>1 DEF FirstPart, TypeInv, TypeOK
  <2> QED
    BY <2>2 DEF TypeInv, TypeOK, ArgumentsTyped, At
<1>2. ASSUME NEW o \in Object, NEW i \in 1..Parts[o], NextPart(o, i) PROVE TypeInv'
  <2> DEFINE last == i < Parts[o] - 1
             u == [idx |-> i, written |-> Append(upload[o].written, i), open |-> last]
  <2>1. i \in Nat /\ upload[o].written \in Seq(Nat) /\ last \in BOOLEAN
    BY <1>0
  <2>2. u \in [idx : Int, written : Seq(Nat), open : BOOLEAN]
    <3> HIDE DEF last
    <3> QED
      BY <2>1
  <2>3. upload' = [upload EXCEPT ![o] = u]
    BY <1>2 DEF NextPart
  <2>4. upload' \in [Object -> [idx : Int, written : Seq(Nat), open : BOOLEAN]]
    <3> HIDE DEF u
    <3> QED
      BY <2>2, <2>3 DEF TypeInv, TypeOK
  <2>5. RestTyped
    BY <1>2, <2>4 DEF NextPart, RestTyped, TypeInv, TypeOK
  <2>6. th' = th \/ th' = Adding("rest", o)
    BY <1>2 DEF NextPart
  <2>7. CASE th' = th
    BY <2>5, <2>7 DEF RestTyped, TypeInv, TypeOK, ArgumentsTyped, At
  <2>8. CASE th' = Adding("rest", o)
    BY <1>0, <2>5, <2>8, AddingBegins, TypeFrom
  <2> QED
    BY <2>6, <2>7, <2>8
<1>3. ASSUME NEW o \in Object, PartFails(o) PROVE TypeInv'
  <2>1. NoUpload \in [idx : Int, written : Seq(Nat), open : BOOLEAN]
    BY DEF NoUpload
  <2>2. UNCHANGED <<rec, file, th, added, spoilt, stranded, crashes>>
        /\ upload' \in [Object -> [idx : Int, written : Seq(Nat), open : BOOLEAN]]
    BY <1>3, <2>1 DEF PartFails, TypeInv, TypeOK
  <2> QED
    BY <2>2 DEF TypeInv, TypeOK, ArgumentsTyped, At
<1> QED
  BY <1>1, <1>2, <1>3 DEF Upload

\* An upload in one piece.
LEMMA AddTypes ==
    ASSUME TypeInv, NEW t \in Task, NEW o \in Object, StartAdd(t, o) PROVE TypeInv'
<1>1. RestTyped
  BY DEF StartAdd, RestTyped, TypeInv, TypeOK
<1> QED
  BY <1>1, AddingBegins, TypeFrom DEF StartAdd

\* A request that was allowed.
LEMMA CheckTypes ==
    ASSUME TypeInv, NEW t \in Task, NEW op \in Ops \ {"add"}, NEW o \in Object,
           NEW u \in User, NEW arg \in Arguments(op), Check(t, op, o, u, arg)
    PROVE  TypeInv' /\ OthersKept(t) /\ th'[t].pc = "start"
<1> DEFINE r == [op |-> op, pc |-> "start", obj |-> o, by |-> u, arg |-> arg, fresh |-> TRUE]
<1>1. /\ arg \in User \cup {NoRecord}
      /\ op \in {"grant", "revoke", "transfer"} => arg \in User
  BY DEF Arguments
<1>2. /\ r \in Served /\ r.obj \in Object /\ r.pc = "start"
      /\ r.op \in {"grant", "revoke", "transfer"} => r.arg \in User
  BY <1>1 DEF Served, Pcs
<1>3. th' = [th EXCEPT ![t] = r]
  BY DEF Check
<1>4. RestTyped
  BY DEF Check, RestTyped, TypeInv, TypeOK
<1> HIDE DEF r
<1> QED
  BY <1>2, <1>3, <1>4, Begins, TypeFrom

\* A fetch by a peer.
LEMMA FetchTypes ==
    ASSUME TypeInv, NEW o \in Object, NEW u \in User, Fetch(o, u)
    PROVE  TypeInv' /\ OthersKept("p2p") /\ th'["p2p"].pc = "file"
<1> DEFINE r == [op |-> "get_content", pc |-> "file", obj |-> o, by |-> u,
                 arg |-> NoRecord, fresh |-> TRUE]
<1>1. /\ r \in Served /\ r.obj \in Object /\ r.pc = "file" /\ r.op = "get_content"
  BY DEF Served, Pcs, Ops
<1>2. th' = [th EXCEPT !["p2p"] = r] /\ "p2p" \in Task
  BY DEF Fetch, Task, Thread
<1>3. RestTyped
  BY DEF Fetch, RestTyped, TypeInv, TypeOK
<1> HIDE DEF r
<1> QED
  BY <1>1, <1>2, <1>3, Begins, TypeFrom

\* What an operation makes of a record is a record (grant_access, revoke_access, ...).
LEMMA AlteredTyped ==
    ASSUME NEW r \in Records, NEW op \in ManageOps, NEW u,
           op \in {"grant", "revoke", "transfer"} => u \in User
    PROVE  Altered(r, op, u) \in Records
<1>1. CASE op = "grant"
  BY <1>1 DEF Altered, Records
<1>2. CASE op = "revoke"
  BY <1>2 DEF Altered, Records
<1>3. CASE op = "transfer"
  BY <1>3 DEF Altered, Records
<1>4. CASE op = "tags"
  BY <1>4 DEF Altered
<1> QED
  BY <1>1, <1>2, <1>3, <1>4 DEF ManageOps

\* A changed record is still there.
LEMMA AlterKeeps ==
    ASSUME TypeInv, NEW t \in Task, Alter(t)
    PROVE  /\ rec' \in [Object -> Records \cup {NoRecord}]
           /\ \A o \in Object : OnRecord(o)' <=> OnRecord(o)
<1> DEFINE o == th[t].obj
<1>1. o \in Object /\ rec \in [Object -> Records \cup {NoRecord}]
  BY DEF Alter, TypeInv, TypeOK, At
<1>2. CASE OnRecord(o)
  <2>1. rec[o] \in Records /\ th[t].op \in ManageOps
    BY <1>1, <1>2 DEF OnRecord, Alter
  <2>2. Altered(rec[o], th[t].op, th[t].arg) \in Records
    <3>1. th[t].op \in {"grant", "revoke", "transfer"} => th[t].arg \in User
      BY DEF Alter, At, TypeInv, ArgumentsTyped
    <3> QED
      BY <2>1, <3>1, AlteredTyped
  <2>3. rec' = [rec EXCEPT ![o] = Altered(rec[o], th[t].op, th[t].arg)]
    BY <1>2 DEF Alter
  <2>4. NoRecord \notin Records
    BY ObjectsAssumption DEF Records
  <2> QED
    BY <1>1, <1>2, <2>2, <2>3, <2>4 DEF OnRecord
<1>3. CASE ~ OnRecord(o)
  BY <1>1, <1>3 DEF Alter, OnRecord
<1> QED
  BY <1>2, <1>3

\* A new record is one.
LEMMA NewRecordTyped ==
    ASSUME NEW o \in Object PROVE NewRecord(o) \in Records /\ NewRecord(o) # NoRecord
BY ObjectsAssumption DEF NewRecord, Records

\* What a thread that serves a request turns to.
Moves(t) ==
    \/ \E pc \in Pcs \ {"start"} :
          /\ ~ At(t, "idle")
          /\ th' = To(t, pc) \/ \E o \in Object : th' = Staling(To(t, pc), t, o)
    \/ th' = Done(t)

\* A thread that moves keeps its types and leaves the others alone.
LEMMA MovesTyped ==
    ASSUME TypeInv, NEW t \in Task, Moves(t), RestTyped PROVE TypeInv' /\ OthersKept(t)
<1>1. CASE th' = Done(t)
  BY <1>1, Ends, TypeFrom
<1>2. CASE th' # Done(t)
  <2>1. PICK pc \in Pcs \ {"start"} :
          /\ ~ At(t, "idle")
          /\ th' = To(t, pc) \/ \E o \in Object : th' = Staling(To(t, pc), t, o)
    BY <1>2 DEF Moves
  <2>2. \E o : th' = To(t, pc) \/ th' = Staling(To(t, pc), t, o)
    BY <2>1
  <2> QED
    BY <2>1, <2>2, GoesOn, TypeFrom
<1> QED
  BY <1>1, <1>2

\* Every step of a request is such a move.
LEMMA ServeTypes ==
    ASSUME TypeInv, NEW t \in Task, Serve(t) PROVE TypeInv' /\ OthersKept(t)
<1>0. /\ th \in [Task -> Served] /\ (~ At(t, "idle") => th[t].obj \in Object)
      /\ ContentOf \in [Object -> Content]
      /\ {"store", "commit", "delete", "count", "unlink", "file", "touch", "send"}
            \subseteq Pcs \ {"start"}
  BY ObjectsAssumption DEF TypeInv, TypeOK, Served, Pcs
<1>1. Moves(t)
  <2> USE DEF At
  <2>1. JoinContent(t) \/ StoreContent(t) \/ StoreRefused(t) \/ AddRecord(t) \/ ReadMeta(t)
          => Moves(t)
    BY <1>0 DEF JoinContent, StoreContent, StoreRefused, AddRecord, ReadMeta, Moves
  <2>2. DeleteRecord(t) \/ CountReferences(t) \/ Unlink(t) \/ FindFile(t) \/ Touch(t) \/ Send(t)
          => Moves(t)
    BY <1>0 DEF DeleteRecord, CountReferences, Unlink, FindFile, Touch, Send, Moves
  <2>3. Alter(t) => Moves(t)
    BY <1>0 DEF Alter, Moves
  <2> QED
    BY <2>1, <2>2, <2>3 DEF Serve
<1>2. RestTyped
  <2> USE DEF RestTyped, TypeInv, TypeOK
  <2>1. CASE JoinContent(t) \/ StoreRefused(t) \/ ReadMeta(t) \/ CountReferences(t) \/ FindFile(t)
             \/ Touch(t) \/ Send(t)
    BY <2>1 DEF JoinContent, StoreRefused, ReadMeta, CountReferences, FindFile, Touch, Send
  <2>2. CASE StoreContent(t)
    BY <1>0, <2>2 DEF StoreContent, At
  <2>3. CASE AddRecord(t)
    BY <1>0, <2>3, NewRecordTyped DEF AddRecord, At
  <2>4. CASE DeleteRecord(t)
    BY <1>0, <2>4 DEF DeleteRecord, At
  <2>5. CASE Unlink(t)
    BY <2>5 DEF Unlink
  <2>6. CASE Alter(t)
    BY <2>6, AlterKeeps DEF Alter
  <2> QED
    BY <2>1, <2>2, <2>3, <2>4, <2>5, <2>6 DEF Serve
<1> QED
  BY <1>1, <1>2, MovesTyped

\* After a crash every thread is idle.
LEMMA CrashTypes == ASSUME TypeInv, Crash PROVE TypeInv' /\ \A t \in Task : th'[t].pc = "idle"
<1>1. Idle \in Served /\ Idle.pc = "idle"
  BY DEF Idle, Served, Ops, OwnerOps, ManageOps, Pcs
<1>2. th' \in [Task -> Served] /\ \A t \in Task : th'[t].pc = "idle"
  BY <1>1 DEF Crash
<1>3. upload' \in [Object -> [idx : Int, written : Seq(Nat), open : BOOLEAN]]
  BY DEF Crash, TypeInv, TypeOK
<1>4. crashes' \in 0..MaxCrashes
  BY ObjectsAssumption DEF Crash, TypeInv, TypeOK
<1>5. RestTyped
  BY <1>3, <1>4 DEF Crash, RestTyped, TypeInv, TypeOK
<1> QED
  BY <1>2, <1>5, TypeFrom DEF ArgumentsTyped, At

\* A download goes over from the REST loop to the task of its response.
Handover(s) ==
    /\ s # "rest" /\ th'[s] = th["rest"] /\ th'["rest"] = Idle
    /\ \A r \in Task \ {s, "rest"} : th'[r] = th[r]

LEMMA RespondTypes ==
    ASSUME TypeInv, NEW s \in Stream, Respond(s)
    PROVE  TypeInv' /\ s \in Task /\ "rest" \in Task /\ Handover(s)
<1>1. s \in Task /\ "rest" \in Task /\ s # "rest"
  BY ObjectsAssumption DEF Task, Thread
<1>2. Idle \in Served /\ Idle.pc = "idle"
  BY DEF Idle, Served, Ops, OwnerOps, ManageOps, Pcs
<1>3. th \in [Task -> Served] /\ th["rest"] \in Served
  BY <1>1 DEF TypeInv, TypeOK, Served
<1>4. th' = [th EXCEPT ![s] = th["rest"], !["rest"] = Idle]
  BY DEF Respond
<1>5. th' \in [Task -> Served] /\ Handover(s)
  BY <1>1, <1>2, <1>3, <1>4 DEF Handover
<1>6. \A r \in Task : th'[r] = Idle \/ \E q \in Task : th'[r] = th[q]
  BY <1>1, <1>5 DEF Handover
<1>7. ArgumentsTyped' /\ \A r \in Task : ~ At(r, "idle")' => th'[r].obj \in Object
  BY <1>2, <1>6 DEF TypeInv, TypeOK, ArgumentsTyped, At
<1>8. RestTyped
  BY DEF Respond, RestTyped, TypeInv, TypeOK
<1> QED
  BY <1>1, <1>5, <1>7, <1>8, TypeFrom

\* The next step, with the tasks of responses among those that serve requests.
LEMMA NextCases ==
    ASSUME Next
    PROVE  \/ Upload \/ Peers \/ Crash \/ \E t \in Task : Requests(t) \/ Serve(t)
           \/ \E s \in Stream : Respond(s)
BY DEF Next, Task, Serve

\* TypeInv is inductive.
LEMMA TypeNext == TypeInv /\ [Next]_vars => TypeInv'
<1> SUFFICES ASSUME TypeInv, [Next]_vars PROVE TypeInv'
  OBVIOUS
<1>1. CASE UNCHANGED vars
  BY <1>1 DEF vars, TypeInv, TypeOK, ArgumentsTyped, At
<1>2. CASE Upload
  BY <1>2, UploadTypes
<1>3. CASE Peers
  <2>1. "p2p" \in Task
    BY DEF Task, Thread
  <2>2. ASSUME NEW o \in Object, NEW target, RelayPush(o, target) PROVE TypeInv'
    <3>1. CASE target = "self"
      BY <2>1, <2>2, <3>1, AddTypes DEF RelayPush, PushAdd
    <3>2. CASE target # "self"
      BY <2>2, <3>2 DEF RelayPush, vars, TypeInv, TypeOK, ArgumentsTyped, At
    <3> QED
      BY <3>1, <3>2
  <2> QED
    BY <1>3, <2>1, <2>2, AddTypes, FetchTypes DEF Peers, PushAdd
<1>4. CASE Crash
  BY <1>4, CrashTypes
<1>5. ASSUME NEW t \in Task, Requests(t) PROVE TypeInv'
  BY <1>5, AddTypes, CheckTypes DEF Requests
<1>6. ASSUME NEW t \in Task, Serve(t) PROVE TypeInv'
  BY <1>6, ServeTypes
<1> QED
  BY <1>1, <1>2, <1>3, <1>4, <1>5, <1>6, RespondTypes, NextCases

\* Every reachable state is well typed.
THEOREM TypeCorrect == Spec => []TypeOK
<1>1. TypeInv => TypeOK
  BY DEF TypeInv
<1> QED
  BY <1>1, TypeInit, TypeNext, PTL DEF Spec

-----------------------------------------------------------------------------
(* Contents *)

AtFile == {"commit", "count", "unlink"}

\* who is about to write a record has the content, unless it was spoilt
CommitHasContent ==
    \A t \in Task : At(t, "commit") => ContentOf[th[t].obj] \in file \cup spoilt

\* who is about to unlink a content is alone with it, or the content was spoilt
UnlinkAlone ==
    \A t \in Task : At(t, "unlink") =>
        \/ ContentOf[th[t].obj] \in spoilt
        \/ /\ RecordsOf(ContentOf[th[t].obj]) = {}
           /\ \A s \in Task : At(s, "commit") => ContentOf[th[s].obj] # ContentOf[th[t].obj]

ContentInv == KeepsContent /\ CommitHasContent /\ UnlinkAlone

\* the work on files and records that threads do is the same
SameFileWork ==
    \A s \in Task : th[s].pc \in AtFile \/ th'[s].pc \in AtFile =>
        th'[s].pc = th[s].pc /\ th'[s].obj = th[s].obj

\* A step that has to do with neither records nor files.
LEMMA QuietStep ==
    ASSUME SameFileWork, UNCHANGED <<file, spoilt, stranded>>,
           \A o \in Object : OnRecord(o)' <=> OnRecord(o)
    PROVE  (ContentInv => ContentInv') /\ (NoOrphans => NoOrphans')
<1>1. \A c : RecordsOf(c)' = RecordsOf(c)
  BY DEF RecordsOf
<1>2. ContentInv => ContentInv'
  BY <1>1 DEF ContentInv, KeepsContent, CommitHasContent, UnlinkAlone, SameFileWork, AtFile, At
<1>3. NoOrphans => NoOrphans'
  BY <1>1 DEF NoOrphans, SameFileWork, AtFile, Handles
<1> QED
  BY <1>2, <1>3

\* The steps of a request that are quiet.
LEMMA QuietServe ==
    ASSUME TypeInv, NEW t \in Task,
           \/ StoreRefused(t) \/ ReadMeta(t) \/ Alter(t) \/ FindFile(t) \/ Touch(t) \/ Send(t)
    PROVE  /\ SameFileWork /\ UNCHANGED <<file, spoilt, stranded>>
           /\ \A o \in Object : OnRecord(o)' <=> OnRecord(o)
<1>1. /\ OthersKept(t) /\ ~ At(t, "idle")
      /\ {"delete", "file", "touch", "send"} \subseteq Pcs \ {"start"}
  BY ServeTypes DEF Serve, Pcs, StoreRefused, ReadMeta, Alter, FindFile, Touch, Send, At
<1>2. th[t].pc \notin AtFile
  BY DEF StoreRefused, ReadMeta, Alter, FindFile, Touch, Send, At, AtFile
<1>3. th'[t].pc \in {"idle", "delete", "file", "touch", "send"}
  <2>1. \/ th' = Done(t)
        \/ \E pc \in {"delete", "file", "touch", "send"} :
             th' = To(t, pc) \/ \E o : th' = Staling(To(t, pc), t, o)
    BY DEF StoreRefused, ReadMeta, Alter, FindFile, Touch, Send
  <2> QED
    BY <1>1, <2>1, GoesOn, Ends
<1>4. SameFileWork
  BY <1>1, <1>2, <1>3 DEF SameFileWork, AtFile, OthersKept
<1>5. UNCHANGED <<file, spoilt, stranded>>
  BY DEF StoreRefused, ReadMeta, Alter, FindFile, Touch, Send
<1>6. \A o \in Object : OnRecord(o)' <=> OnRecord(o)
  BY AlterKeeps DEF StoreRefused, ReadMeta, FindFile, Touch, Send, OnRecord
<1> QED
  BY <1>4, <1>5, <1>6

\* A request arrives, or part of an upload.
LEMMA QuietRequest ==
    ASSUME TypeInv, Upload \/ Peers \/ \E t \in Task : Requests(t)
    PROVE  /\ SameFileWork /\ UNCHANGED <<file, spoilt, stranded>>
           /\ \A o \in Object : OnRecord(o)' <=> OnRecord(o)
<1>0. "rest" \in Task /\ "p2p" \in Task
  BY DEF Task, Thread
<1>1. ASSUME NEW t \in Task, NEW o \in Object, At(t, "idle"), th' = Adding(t, o)
      PROVE  SameFileWork
  BY <1>1, AddingBegins DEF SameFileWork, AtFile, OthersKept, At
<1>2. ASSUME th' = th PROVE SameFileWork
  BY <1>2 DEF SameFileWork
<1>3. CASE Upload
  <2>1. PICK o \in Object : FirstPart(o) \/ PartFails(o) \/ \E i \in 1..Parts[o] : NextPart(o, i)
    BY <1>3 DEF Upload
  <2>2. th' = th \/ (At("rest", "idle") /\ th' = Adding("rest", o))
    BY <2>1 DEF FirstPart, PartFails, NextPart
  <2>3. UNCHANGED <<rec, file, spoilt, stranded>>
    BY <2>1 DEF FirstPart, PartFails, NextPart
  <2> QED
    BY <1>0, <1>1, <1>2, <2>2, <2>3 DEF OnRecord
<1>4. ASSUME NEW t \in Task, NEW o \in Object, StartAdd(t, o)
      PROVE  SameFileWork /\ UNCHANGED <<rec, file, spoilt, stranded>>
  BY <1>1, <1>4 DEF StartAdd
<1>5. CASE Peers
  <2>1. ASSUME NEW o \in Object, NEW u \in User, Fetch(o, u)
        PROVE  SameFileWork /\ UNCHANGED <<rec, file, spoilt, stranded>>
    <3>1. At("p2p", "idle") /\ UNCHANGED <<rec, file, spoilt, stranded>>
      BY <2>1 DEF Fetch
    <3> QED
      BY <2>1, <3>1, FetchTypes DEF SameFileWork, AtFile, OthersKept, At
  <2>2. ASSUME NEW o \in Object, NEW target, RelayPush(o, target)
        PROVE  SameFileWork /\ UNCHANGED <<rec, file, spoilt, stranded>>
    BY <1>0, <1>2, <1>4, <2>2 DEF RelayPush, PushAdd, vars
  <2> QED
    BY <1>0, <1>4, <1>5, <2>1, <2>2 DEF Peers, PushAdd, OnRecord
<1>6. ASSUME NEW t \in Task, Requests(t)
      PROVE  SameFileWork /\ UNCHANGED <<rec, file, spoilt, stranded>>
  <2>1. ASSUME NEW op \in Ops \ {"add"}, NEW o \in Object, NEW u \in User,
               NEW arg \in Arguments(op), Check(t, op, o, u, arg)
        PROVE  SameFileWork /\ UNCHANGED <<rec, file, spoilt, stranded>>
    <3>1. At(t, "idle") /\ UNCHANGED <<rec, file, spoilt, stranded>>
      BY <2>1 DEF Check
    <3> QED
      BY <2>1, <3>1, CheckTypes DEF SameFileWork, AtFile, OthersKept, At
  <2> QED
    BY <1>4, <1>6, <2>1 DEF Requests
<1> QED
  BY <1>3, <1>5, <1>6 DEF OnRecord

\* What a thread that works on a content knows of itself and of the others.
LEMMA AtWork ==
    ASSUME TypeInv, NEW t \in Task, ~ At(t, "idle")
    PROVE  /\ th[t].obj \in Object /\ ContentOf[th[t].obj] \in Content
           /\ \A o \in Object : ContentOf[o] \in Content
BY ObjectsAssumption DEF TypeInv, TypeOK

\* add finds the content of another record (_db_mutex is taken until the commit).
LEMMA JoinStep ==
    ASSUME TypeInv, NEW t \in Task, JoinContent(t)
    PROVE  (ContentInv => ContentInv') /\ (NoOrphans => NoOrphans')
<1> DEFINE c == ContentOf[th[t].obj]
<1>1. /\ OthersKept(t) /\ th'[t].pc = "commit" /\ th'[t].obj = th[t].obj /\ th[t].obj \in Object
      /\ UNCHANGED <<rec, file, spoilt, stranded>> /\ At(t, "store")
  <2>1. ~ At(t, "idle") /\ "commit" \in Pcs \ {"start"} /\ th' = To(t, "commit")
    BY DEF JoinContent, At, Pcs
  <2> QED
    BY <2>1, GoesOn, AtWork DEF JoinContent
<1>2. \A d : RecordsOf(d)' = RecordsOf(d)
  BY <1>1 DEF RecordsOf, OnRecord
<1>3. RecordsOf(c) # {}
  BY DEF JoinContent
<1>4. ASSUME ContentInv PROVE ContentInv'
  <2>1. c \in file \cup spoilt
    BY <1>3, <1>4 DEF ContentInv, KeepsContent, RecordsOf
  <2>2. KeepsContent' /\ CommitHasContent'
    BY <1>1, <1>4, <2>1 DEF ContentInv, KeepsContent, OnRecord, CommitHasContent, At, OthersKept
  <2>3. UnlinkAlone'
    BY <1>1, <1>2, <1>3, <1>4 DEF ContentInv, UnlinkAlone, At, OthersKept
  <2> QED
    BY <2>2, <2>3 DEF ContentInv
<1>5. ASSUME NoOrphans PROVE NoOrphans'
  BY <1>1, <1>2, <1>5 DEF NoOrphans, Handles, OthersKept, At
<1> QED
  BY <1>4, <1>5

\* add copies a file, perhaps while a removal is about to unlink it.
LEMMA StoreStep ==
    ASSUME TypeInv, NEW t \in Task, StoreContent(t)
    PROVE  (ContentInv => ContentInv') /\ (NoOrphans => NoOrphans')
<1> DEFINE c == ContentOf[th[t].obj]
<1>1. /\ OthersKept(t) /\ th'[t].pc = "commit" /\ th'[t].obj = th[t].obj /\ th[t].obj \in Object
      /\ rec' = rec /\ file' = file \cup {c} /\ stranded' = stranded \ {c} /\ At(t, "store")
  <2>1. ~ At(t, "idle") /\ "commit" \in Pcs \ {"start"} /\ th' = To(t, "commit")
    BY DEF StoreContent, At, Pcs
  <2> QED
    BY <2>1, GoesOn, AtWork DEF StoreContent
<1>2. \A d : RecordsOf(d)' = RecordsOf(d)
  BY <1>1 DEF RecordsOf, OnRecord
<1>3. \A d : d # c => (d \in spoilt' <=> d \in spoilt)
  BY DEF StoreContent
<1>4. \A s \in Task : At(s, "unlink") /\ ContentOf[th[s].obj] = c => c \in spoilt'
  BY AtWork DEF StoreContent, Handles, At
<1>5. ASSUME ContentInv PROVE ContentInv'
  <2>1. KeepsContent'
    BY <1>1, <1>3, <1>5 DEF ContentInv, KeepsContent, OnRecord
  <2>2. CommitHasContent'
    BY <1>1, <1>3, <1>5 DEF ContentInv, CommitHasContent, At, OthersKept
  <2>3. UnlinkAlone'
    BY <1>1, <1>2, <1>3, <1>4, <1>5 DEF ContentInv, UnlinkAlone, At, OthersKept
  <2> QED
    BY <2>1, <2>2, <2>3 DEF ContentInv
<1>6. ASSUME NoOrphans PROVE NoOrphans'
  <2>1. Handles(t, c)' /\ th'[t].pc \in {"commit", "count", "unlink"}
    BY <1>1 DEF Handles
  <2> QED
    BY <1>1, <1>2, <1>6, <2>1 DEF NoOrphans, Handles, OthersKept, At
<1> QED
  BY <1>5, <1>6

\* The commit of add: the record has the content that is there.
LEMMA CommitStep ==
    ASSUME TypeInv, NEW t \in Task, AddRecord(t)
    PROVE  (ContentInv => ContentInv') /\ (NoOrphans => NoOrphans')
<1>0. PICK x \in Object : x = th[t].obj
  BY AtWork DEF AddRecord, At
<1>1. /\ OthersKept(t) /\ th'[t].pc = "idle" /\ At(t, "commit")
      /\ UNCHANGED <<file, spoilt, stranded>>
  <2>1. ~ At(t, "idle") /\ th' = Done(t)
    BY DEF AddRecord, At
  <2> QED
    BY <2>1, Ends DEF AddRecord
<1>2. /\ OnRecord(x)'
      /\ \A o \in Object \ {x} : OnRecord(o)' <=> OnRecord(o)
  BY <1>0, NewRecordTyped DEF AddRecord, TypeInv, TypeOK, OnRecord
<1>3. /\ \A d : d # ContentOf[x] => RecordsOf(d)' = RecordsOf(d)
      /\ \A d : RecordsOf(d) # {} => RecordsOf(d)' # {}
      /\ RecordsOf(ContentOf[x])' # {}
  BY <1>1, <1>2 DEF RecordsOf
<1>4. ASSUME ContentInv PROVE ContentInv'
  <2>1. KeepsContent'
    BY <1>0, <1>1, <1>2, <1>4 DEF ContentInv, KeepsContent, CommitHasContent
  <2>2. CommitHasContent'
    BY <1>1, <1>4 DEF ContentInv, CommitHasContent, At, OthersKept
  <2>3. UnlinkAlone'
    BY <1>0, <1>1, <1>3, <1>4 DEF ContentInv, UnlinkAlone, At, OthersKept
  <2> QED
    BY <2>1, <2>2, <2>3 DEF ContentInv
<1>5. ASSUME NoOrphans PROVE NoOrphans'
  BY <1>0, <1>1, <1>3, <1>5 DEF NoOrphans, Handles, OthersKept, At
<1> QED
  BY <1>4, <1>5

\* A removal deletes the record, and has yet to count the others.
LEMMA DeleteStep ==
    ASSUME TypeInv, NEW t \in Task, DeleteRecord(t)
    PROVE  (ContentInv => ContentInv') /\ (NoOrphans => NoOrphans')
<1> DEFINE x == th[t].obj
<1>1. /\ OthersKept(t) /\ th'[t].pc = "count" /\ th'[t].obj = x /\ x \in Object
      /\ UNCHANGED <<file, spoilt, stranded>> /\ At(t, "delete")
  <2>1. /\ ~ At(t, "idle") /\ "count" \in Pcs \ {"start"}
        /\ th' = Staling(To(t, "count"), t, x)
    BY DEF DeleteRecord, At, Pcs
  <2> QED
    BY <2>1, GoesOn, AtWork DEF DeleteRecord
<1>2. ~ OnRecord(x)' /\ \A o \in Object \ {x} : OnRecord(o)' <=> OnRecord(o)
  BY <1>1 DEF DeleteRecord, TypeInv, TypeOK, OnRecord
<1>3. /\ \A d : d # ContentOf[x] => RecordsOf(d)' = RecordsOf(d)
      /\ \A d : RecordsOf(d) = {} => RecordsOf(d)' = {}
  BY <1>1, <1>2 DEF RecordsOf
<1>4. ASSUME ContentInv PROVE ContentInv'
  BY <1>1, <1>2, <1>3, <1>4
     DEF ContentInv, KeepsContent, CommitHasContent, UnlinkAlone, At, OthersKept
<1>5. ASSUME NoOrphans PROVE NoOrphans'
  <2>1. Handles(t, ContentOf[x])'
    BY <1>1 DEF Handles
  <2> QED
    BY <1>1, <1>3, <1>5, <2>1 DEF NoOrphans, Handles, OthersKept, At
<1> QED
  BY <1>4, <1>5

\* The count: no record is left, and nobody is between the look and the commit of add.
LEMMA CountStep ==
    ASSUME TypeInv, NEW t \in Task, CountReferences(t)
    PROVE  (ContentInv => ContentInv') /\ (NoOrphans => NoOrphans')
<1> DEFINE c == ContentOf[th[t].obj]
<1>1. /\ th[t].obj \in Object /\ At(t, "count") /\ OthersKept(t)
      /\ UNCHANGED <<rec, file, spoilt, stranded>>
      /\ \A s \in Task : ~ At(s, "commit")
  BY AtWork, ServeTypes DEF CountReferences, At, Unlocked, Serve
<1>2. \/ RecordsOf(c) = {} /\ th'[t].pc = "unlink" /\ th'[t].obj = th[t].obj
      \/ RecordsOf(c) # {} /\ th'[t].pc = "idle"
  <2>1. ~ At(t, "idle") /\ "unlink" \in Pcs \ {"start"}
    BY <1>1 DEF At, Pcs
  <2> QED
    BY <2>1, GoesOn, Ends DEF CountReferences
<1>3. \A d : RecordsOf(d)' = RecordsOf(d)
  BY <1>1 DEF RecordsOf, OnRecord
<1>4. \A s \in Task : ~ At(s, "commit")'
  BY <1>1, <1>2 DEF At, OthersKept
<1>5. ASSUME ContentInv PROVE ContentInv'
  BY <1>1, <1>2, <1>3, <1>4, <1>5
     DEF ContentInv, KeepsContent, OnRecord, CommitHasContent, UnlinkAlone, At, OthersKept
<1>6. ASSUME NoOrphans PROVE NoOrphans'
  BY <1>1, <1>2, <1>3, <1>6 DEF NoOrphans, Handles, OthersKept, At
<1> QED
  BY <1>5, <1>6

\* The unlink takes away a content that nobody has, or that was spoilt.
LEMMA UnlinkStep ==
    ASSUME TypeInv, NEW t \in Task, Unlink(t)
    PROVE  (ContentInv => ContentInv') /\ (NoOrphans => NoOrphans')
<1> DEFINE c == ContentOf[th[t].obj]
<1>1. /\ OthersKept(t) /\ th'[t].pc = "idle" /\ th[t].obj \in Object /\ At(t, "unlink")
      /\ UNCHANGED <<rec, spoilt, stranded>> /\ file' = file \ {c}
  <2>1. ~ At(t, "idle") /\ th' = Done(t)
    BY DEF Unlink, At
  <2> QED
    BY <2>1, Ends, AtWork DEF Unlink
<1>2. \A d : RecordsOf(d)' = RecordsOf(d)
  BY <1>1 DEF RecordsOf, OnRecord
<1>3. ASSUME ContentInv PROVE ContentInv'
  <2>1. c \in spoilt \/ (/\ \A o \in Object : OnRecord(o) => ContentOf[o] # c
                         /\ \A s \in Task : At(s, "commit") => ContentOf[th[s].obj] # c)
    BY <1>1, <1>3 DEF ContentInv, UnlinkAlone, RecordsOf
  <2>2. KeepsContent' /\ CommitHasContent'
    BY <1>1, <1>3, <2>1 DEF ContentInv, KeepsContent, OnRecord, CommitHasContent, At, OthersKept
  <2>3. UnlinkAlone'
    BY <1>1, <1>2, <1>3 DEF ContentInv, UnlinkAlone, At, OthersKept
  <2> QED
    BY <2>2, <2>3 DEF ContentInv
<1>4. ASSUME NoOrphans PROVE NoOrphans'
  BY <1>1, <1>2, <1>4 DEF NoOrphans, Handles, OthersKept, At
<1> QED
  BY <1>3, <1>4

\* A crash: nobody is at work, and what has no record is stranded.
LEMMA CrashStep ==
    ASSUME TypeInv, Crash
    PROVE  (ContentInv => ContentInv') /\ (NoOrphans => NoOrphans')
<1>1. \A t \in Task : th'[t].pc = "idle"
  BY CrashTypes
<1>2. \A d : RecordsOf(d)' = RecordsOf(d)
  BY DEF Crash, RecordsOf, OnRecord
<1>3. ContentInv => ContentInv'
  BY <1>1 DEF Crash, ContentInv, KeepsContent, OnRecord, CommitHasContent, UnlinkAlone, At
<1>4. NoOrphans'
  BY <1>2 DEF Crash, NoOrphans
<1> QED
  BY <1>3, <1>4

\* So are the invariants about contents, given the types.
LEMMA FileNext ==
    ASSUME TypeInv, [Next]_vars
    PROVE  (ContentInv => ContentInv') /\ (NoOrphans => NoOrphans')
<1>1. CASE UNCHANGED vars
  <2>1. /\ SameFileWork /\ UNCHANGED <<file, spoilt, stranded>>
        /\ \A o \in Object : OnRecord(o)' <=> OnRecord(o)
    BY <1>1 DEF vars, SameFileWork, OnRecord
  <2> QED
    BY <2>1, QuietStep
<1>2. CASE Upload \/ Peers \/ \E t \in Task : Requests(t)
  BY <1>2, QuietRequest, QuietStep
<1>3. ASSUME NEW t \in Task, Serve(t)
      PROVE  (ContentInv => ContentInv') /\ (NoOrphans => NoOrphans')
  <2>1. CASE \/ StoreRefused(t) \/ ReadMeta(t) \/ Alter(t) \/ FindFile(t) \/ Touch(t) \/ Send(t)
    BY <2>1, QuietServe, QuietStep
  <2> QED
    BY <1>3, <2>1, JoinStep, StoreStep, CommitStep, DeleteStep, CountStep, UnlinkStep DEF Serve
<1>4. CASE Crash
  BY <1>4, CrashStep
<1>5. ASSUME NEW s \in Stream, Respond(s)
      PROVE  (ContentInv => ContentInv') /\ (NoOrphans => NoOrphans')
  <2>1. UNCHANGED <<rec, file, spoilt, stranded>> /\ At("rest", "send") /\ At(s, "idle")
    BY <1>5 DEF Respond
  <2>2. SameFileWork
    BY <1>5, <2>1, RespondTypes DEF Handover, SameFileWork, AtFile, At, Idle
  <2> QED
    BY <2>1, <2>2, QuietStep DEF OnRecord
<1> QED
  BY <1>1, <1>2, <1>3, <1>4, <1>5, NextCases

\* There is no object and no file at first.
LEMMA FileInit == Init => ContentInv /\ NoOrphans
BY DEF Init, ContentInv, KeepsContent, OnRecord, CommitHasContent, UnlinkAlone, NoOrphans, At, Idle

\* Every object on record has its content, unless an upload copied it while a removal
\* that had counted no references was about to unlink it.
THEOREM ContentKept == Spec => []KeepsContent
<1>1. ContentInv => KeepsContent
  BY DEF ContentInv
<1> QED
  BY <1>1, TypeInit, TypeNext, FileInit, FileNext, PTL DEF Spec

\* No content file is left without a record but by a crash.
THEOREM OrphansCorrect == Spec => []NoOrphans
BY TypeInit, TypeNext, FileInit, FileNext, PTL DEF Spec
-----------------------------------------------------------------------------
(* Uploads in parts *)

\* The first n parts of an upload, in order.
Whole(n) == [i \in 1..n |-> i - 1]

\* an open upload holds every part up to idx and not the last one, and has not been
\* handed to add
InOrder(o) ==
    /\ upload[o].open =>
          /\ o \notin added
          /\ Parts[o] > 1
          /\ upload[o].idx \in 0..(Parts[o] - 2)
          /\ upload[o].written = Whole(upload[o].idx + 1)
    /\ o \in added /\ upload[o].written # <<>> => upload[o].written = Whole(Parts[o])
    /\ Parts[o] = 1 => upload[o].written = <<>>

UploadInv == \A o \in Object : InOrder(o)

\* One more part.
LEMMA WholeAppend ==
    ASSUME NEW n \in Nat PROVE Append(Whole(n), n) = Whole(n + 1)
<1>1. Whole(n) \in Seq(Int) /\ Len(Whole(n)) = n
  BY DEF Whole
<1> QED
  BY <1>1 DEF Whole

\* The steps of uploads keep the parts in order.
LEMMA UploadStep == ASSUME TypeInv, UploadInv, Upload PROVE UploadInv'
<1>0. /\ upload \in [Object -> [idx : Int, written : Seq(Nat), open : BOOLEAN]]
      /\ \A o \in Object : Parts[o] \in Nat \ {0}
  BY ObjectsAssumption DEF TypeInv, TypeOK
<1>1. ASSUME NEW o \in Object, FirstPart(o) PROVE UploadInv'
  <2>1. [upload EXCEPT ![o] = [idx |-> 0, written |-> <<0>>, open |-> TRUE]] = upload'
        /\ added' = added /\ Parts[o] > 1 /\ o \notin added
    BY <1>1 DEF FirstPart
  <2>2. <<0>> = Whole(0 + 1)
    BY DEF Whole
  <2>3. /\ upload'[o].idx = 0 /\ upload'[o].written = <<0>>
        /\ \A x \in Object \ {o} : upload'[x] = upload[x]
    BY <1>0, <2>1
  <2>4. 0 \in 0..(Parts[o] - 2)
    BY <1>0, <2>1
  <2>5. InOrder(o)'
    BY <1>0, <2>1, <2>2, <2>3, <2>4 DEF InOrder
  <2>6. \A x \in Object \ {o} : InOrder(x)'
    BY <2>1, <2>3 DEF UploadInv, InOrder
  <2> QED
    BY <2>5, <2>6 DEF UploadInv
<1>2. ASSUME NEW o \in Object, NEW i \in 1..Parts[o], NextPart(o, i) PROVE UploadInv'
  <2> DEFINE last == i < Parts[o] - 1
  <2>1. /\ upload[o].open
        /\ i = upload[o].idx + 1 /\ i \in Nat /\ upload[o].written = Whole(i)
        /\ o \notin added /\ Parts[o] > 1 /\ i \in 1..(Parts[o] - 1)
    <3>1. upload[o].open /\ i = upload[o].idx + 1
      BY <1>2 DEF NextPart, InSequence
    <3> QED
      BY <1>0, <3>1 DEF UploadInv, InOrder
  <2>2. Append(upload[o].written, i) = Whole(i + 1)
    BY <2>1, WholeAppend
  <2>3. upload' = [upload EXCEPT ![o] = [idx |-> i, written |-> Whole(i + 1), open |-> last]]
    BY <1>2, <2>2 DEF NextPart
  <2> HIDE DEF last
  <2>4. /\ upload'[o].idx = i /\ upload'[o].written = Whole(i + 1) /\ upload'[o].open = last
        /\ \A x \in Object \ {o} : upload'[x] = upload[x]
    BY <1>0, <2>3
  <2>5. CASE last
    <3>1. added' = added
      BY <1>2, <2>5 DEF NextPart, last
    <3>2. i \in 0..(Parts[o] - 2)
      BY <1>0, <2>1, <2>5 DEF last
    <3>3. InOrder(o)'
      BY <1>0, <2>1, <2>4, <3>1, <3>2 DEF InOrder
    <3>4. \A x \in Object \ {o} : InOrder(x)'
      BY <2>4, <3>1 DEF UploadInv, InOrder
    <3> QED
      BY <3>3, <3>4 DEF UploadInv
  <2>6. CASE ~ last
    <3>1. added' = added \cup {o}
      BY <1>2, <2>6 DEF NextPart, last
    <3>2. i + 1 = Parts[o]
      BY <1>0, <2>1, <2>6 DEF last
    <3>3. InOrder(o)'
      BY <1>0, <2>1, <2>4, <2>6, <3>1, <3>2 DEF InOrder
    <3>4. \A x \in Object \ {o} : InOrder(x)'
      BY <2>4, <3>1 DEF UploadInv, InOrder
    <3> QED
      BY <3>3, <3>4 DEF UploadInv
  <2> QED
    BY <2>5, <2>6
<1>3. ASSUME NEW o \in Object, PartFails(o) PROVE UploadInv'
  BY <1>0, <1>3 DEF PartFails, NoUpload, UploadInv, InOrder
<1> QED
  BY <1>1, <1>2, <1>3 DEF Upload

\* An object in one piece has no parts, and the other steps leave the uploads alone.
LEMMA UploadNext == TypeInv /\ UploadInv /\ [Next]_vars => UploadInv'
<1> SUFFICES ASSUME TypeInv, UploadInv, [Next]_vars PROVE UploadInv'
  OBVIOUS
<1>1. ASSUME NEW t \in Task, NEW o \in Object, StartAdd(t, o) PROVE UploadInv'
  BY <1>1 DEF StartAdd, UploadInv, InOrder
<1>2. ASSUME upload' = upload, added' = added PROVE UploadInv'
  BY <1>2 DEF UploadInv, InOrder
<1>3. CASE UNCHANGED vars
  BY <1>2, <1>3 DEF vars
<1>4. CASE Peers
  <2>1. "p2p" \in Task
    BY DEF Task, Thread
  <2> QED
    BY <1>1, <1>2, <1>4, <2>1 DEF Peers, PushAdd, RelayPush, Fetch, vars
<1>5. CASE Crash
  BY <1>5 DEF Crash, UploadInv, InOrder, TypeInv, TypeOK
<1>6. ASSUME NEW t \in Task, Requests(t) PROVE UploadInv'
  BY <1>1, <1>2, <1>6 DEF Requests, Check
<1>7. ASSUME NEW t \in Task, Serve(t) PROVE UploadInv'
  BY <1>2, <1>7 DEF Serve, JoinContent, StoreContent, StoreRefused, AddRecord, ReadMeta,
     DeleteRecord, CountReferences, Unlink, Alter, FindFile, Touch, Send
<1>8. ASSUME NEW s \in Stream, Respond(s) PROVE UploadInv'
  BY <1>2, <1>8 DEF Respond
<1> QED
  BY <1>3, <1>4, <1>5, <1>6, <1>7, <1>8, UploadStep, NextCases

\* An upload in parts reaches add only with every part, once and in order.
THEOREM UploadsCorrect == Spec => []WholeUploads
<1>1. Init => UploadInv
  BY DEF Init, UploadInv, InOrder, NoUpload
<1>2. ASSUME TypeInv, UploadInv PROVE WholeUploads
  BY <1>2 DEF UploadInv, InOrder, WholeUploads, Whole, TypeInv, TypeOK
<1> QED
  BY <1>1, <1>2, TypeInit, TypeNext, UploadNext, PTL DEF Spec
-----------------------------------------------------------------------------
(* Rights *)

\* an object is on record, and is asked for, only when it has been handed to add
Known ==
    /\ \A o \in Object : OnRecord(o) => o \in added
    /\ \A t \in Task : ~ At(t, "idle") => th[t].obj \in added

\* a record is deleted by a removal, a content is sent to who asks for it
Shaped ==
    \A t \in Task : /\ At(t, "delete") => th[t].op = "remove"
                    /\ At(t, "send") => th[t].op = "get_content"

\* an object that is being added has no record, and no other request knows it
AddsAlone ==
    \A t \in Task : At(t, "store") \/ At(t, "commit") =>
        /\ ~ OnRecord(th[t].obj)
        /\ \A s \in Task \ {t} : ~ At(s, "idle") => th[s].obj # th[t].obj

\* what the check of the request found still holds, unless it was taken away since
Entitled(t) ==
    th[t].fresh /\ ~ At(t, "idle") =>
        /\ th[t].op \in OwnerOps /\ th[t].pc \in {"start", "delete"} =>
              OnRecord(th[t].obj) /\ IsOwner(th[t].obj, th[t].by)
        /\ th[t].op = "get_content" =>
              OnRecord(th[t].obj) /\ HasAccess(th[t].obj, th[t].by)

RightsInv == Known /\ Shaped /\ AddsAlone /\ \A t \in Task : Entitled(t)

\* the request of s is the same, only the step and its standing may change
SameRequest(s) ==
    /\ th'[s].obj = th[s].obj /\ th'[s].op = th[s].op /\ th'[s].by = th[s].by
    /\ th'[s].fresh => th[s].fresh

\* the steps a request goes through
Follows(t) ==
    /\ th'[t].pc # "start" /\ th'[t].pc # "store"
    /\ At(t, "commit")' => At(t, "store")
    /\ At(t, "delete")' => At(t, "start") /\ th[t].op = "remove"
    /\ At(t, "send")' => th[t].op = "get_content"

\* A move keeps the requests, and marks those it takes something from.
LEMMA SameRequests ==
    ASSUME TypeInv, NEW t \in Task, NEW pc \in Pcs, NEW o,
           th' = To(t, pc) \/ th' = Staling(To(t, pc), t, o)
    PROVE  /\ \A s \in Task : SameRequest(s)
           /\ th'[t].pc = pc
           /\ th' = Staling(To(t, pc), t, o) =>
                 \A s \in Task \ {t} :
                    th[s].obj = o /\ Takes(th[t].op, th[t].arg, th[s]) => ~ th'[s].fresh
<1>1. th \in [Task -> Served]
  BY DEF TypeInv, TypeOK, Served
<1>2. \A r \in Served :
        /\ [r EXCEPT !.pc = pc] \in Served
        /\ [r EXCEPT !.pc = pc].pc = pc
        /\ [r EXCEPT !.pc = pc].obj = r.obj /\ [r EXCEPT !.pc = pc].op = r.op
        /\ [r EXCEPT !.pc = pc].by = r.by /\ [r EXCEPT !.pc = pc].fresh = r.fresh
        /\ [r EXCEPT !.pc = pc].arg = r.arg
  BY DEF Served
<1>3. \A r \in Served :
        /\ [r EXCEPT !.fresh = FALSE].pc = r.pc
        /\ [r EXCEPT !.fresh = FALSE].obj = r.obj /\ [r EXCEPT !.fresh = FALSE].op = r.op
        /\ [r EXCEPT !.fresh = FALSE].by = r.by /\ ~ [r EXCEPT !.fresh = FALSE].fresh
  BY DEF Served
<1>4. /\ To(t, pc) \in [Task -> Served] /\ To(t, pc)[t].pc = pc
      /\ \A s \in Task : /\ To(t, pc)[s].obj = th[s].obj /\ To(t, pc)[s].op = th[s].op
                         /\ To(t, pc)[s].by = th[s].by /\ To(t, pc)[s].fresh = th[s].fresh
                         /\ To(t, pc)[s].arg = th[s].arg
  BY <1>1, <1>2 DEF To
<1>5. \A s \in Task : Takes(To(t, pc)[t].op, To(t, pc)[t].arg, To(t, pc)[s]) <=>
                      Takes(th[t].op, th[t].arg, th[s])
  BY <1>4 DEF Takes
<1>6. CASE th' = To(t, pc)
  <2>1. \A s \in Task : SameRequest(s)
    BY <1>4, <1>6 DEF SameRequest
  <2>2. th' = Staling(To(t, pc), t, o) =>
           \A s \in Task \ {t} :
              th[s].obj = o /\ Takes(th[t].op, th[t].arg, th[s]) => ~ th'[s].fresh
    BY <1>3, <1>4, <1>5 DEF Staling
  <2> QED
    BY <1>4, <1>6, <2>1, <2>2
<1>7. CASE th' = Staling(To(t, pc), t, o)
  <2>1. \A s \in Task : SameRequest(s) /\ th'[s].pc = To(t, pc)[s].pc
    BY <1>3, <1>4, <1>7 DEF SameRequest, Staling
  <2>2. \A s \in Task \ {t} :
           th[s].obj = o /\ Takes(th[t].op, th[t].arg, th[s]) => ~ th'[s].fresh
    BY <1>3, <1>4, <1>5, <1>7 DEF Staling
  <2> QED
    BY <1>4, <2>1, <2>2
<1> QED
  BY <1>6, <1>7

\* A step of a request goes on with it or ends it, and leaves the others theirs.
LEMMA ServeFollows ==
    ASSUME TypeInv, NEW t \in Task, Serve(t)
    PROVE  /\ added' = added /\ ~ At(t, "idle") /\ OthersKept(t)
           /\ \A s \in Task \ {t} : SameRequest(s)
           /\ th'[t].pc = "idle" \/ (SameRequest(t) /\ Follows(t))
<1>0. /\ {"commit", "delete", "count", "unlink", "file", "touch", "send"} \subseteq Pcs \ {"start"}
      /\ "remove" \in OwnerOps
  BY DEF Pcs, OwnerOps
<1>1. added' = added /\ ~ At(t, "idle") /\ OthersKept(t)
  BY ServeTypes DEF Serve, JoinContent, StoreContent, StoreRefused, AddRecord, ReadMeta,
     DeleteRecord, CountReferences, Unlink, Alter, FindFile, Touch, Send, At
<1>2. CASE th' = Done(t)
  <2>1. th'[t].pc = "idle"
    BY <1>2, Ends
  <2>2. \A s \in Task \ {t} : th'[s] = th[s]
    BY <1>2 DEF Done, TypeInv, TypeOK
  <2> QED
    BY <1>1, <2>1, <2>2 DEF SameRequest
<1>3. CASE th' # Done(t)
  <2>1. PICK pc \in {"commit", "delete", "count", "unlink", "file", "touch", "send"} :
          /\ th' = To(t, pc) \/ \E o : th' = Staling(To(t, pc), t, o)
          /\ pc = "commit" => At(t, "store")
          /\ pc = "delete" => At(t, "start") /\ th[t].op = "remove"
          /\ pc = "send" => th[t].op = "get_content"
    <3>1. CASE JoinContent(t) \/ StoreContent(t) \/ StoreRefused(t) \/ AddRecord(t) \/ ReadMeta(t)
      BY <1>3, <3>1 DEF JoinContent, StoreContent, StoreRefused, AddRecord, ReadMeta, At
    <3>2. CASE \/ DeleteRecord(t) \/ CountReferences(t) \/ Unlink(t) \/ FindFile(t) \/ Touch(t)
               \/ Send(t)
      BY <1>3, <3>2 DEF DeleteRecord, CountReferences, Unlink, FindFile, Touch, Send, At
    <3>3. CASE Alter(t)
      BY <1>3, <3>3 DEF Alter
    <3> QED
      BY <3>1, <3>2, <3>3 DEF Serve
  <2>2. /\ \A s \in Task : SameRequest(s)
        /\ th'[t].pc = pc
    BY <1>0, <2>1, SameRequests
  <2> QED
    BY <1>0, <1>1, <2>1, <2>2 DEF Follows, At
<1> QED
  BY <1>2, <1>3

\* What the requests rely on is not taken away from under a fresh one.
ReliedOn ==
    \A s \in Task : ~ At(s, "idle")' =>
        /\ th'[s].fresh /\ th[s].op \in OwnerOps /\ th'[s].pc \in {"start", "delete"}
              /\ OnRecord(th[s].obj) /\ IsOwner(th[s].obj, th[s].by) =>
           rec'[th[s].obj] # NoRecord /\ rec'[th[s].obj].owner = th[s].by
        /\ th'[s].fresh /\ th[s].op = "get_content"
              /\ OnRecord(th[s].obj) /\ HasAccess(th[s].obj, th[s].by) =>
           /\ rec'[th[s].obj] # NoRecord
           /\ th[s].obj \in Restricted => th[s].by \in rec'[th[s].obj].access
        /\ At(s, "store") \/ At(s, "commit") => rec'[th[s].obj] = NoRecord

\* A step of a request that leaves the others what they rely on keeps RightsInv.
LEMMA RightsServe ==
    ASSUME TypeInv, RightsInv, NEW t \in Task, Serve(t), ReliedOn,
           \A o \in Object : OnRecord(o)' => o \in added
    PROVE  RightsInv'
<1>1. /\ added' = added /\ ~ At(t, "idle") /\ OthersKept(t)
      /\ \A s \in Task \ {t} : SameRequest(s)
      /\ th'[t].pc = "idle" \/ (SameRequest(t) /\ Follows(t))
  BY ServeFollows
<1>2. \A s \in Task : ~ At(s, "idle")' => SameRequest(s) /\ ~ At(s, "idle")
  BY <1>1 DEF OthersKept, At
<1>3. Known'
  BY <1>1, <1>2 DEF RightsInv, Known, SameRequest
<1>4. Shaped'
  BY <1>1, <1>2 DEF RightsInv, Shaped, SameRequest, Follows, OthersKept, At
<1>5. \A s \in Task : At(s, "store")' \/ At(s, "commit")' => At(s, "store") \/ At(s, "commit")
  BY <1>1 DEF Follows, OthersKept, At
<1>6. AddsAlone'
  <2> SUFFICES ASSUME NEW s \in Task, At(s, "store")' \/ At(s, "commit")'
               PROVE  /\ rec'[th[s].obj] = NoRecord /\ th'[s].obj = th[s].obj
                      /\ \A r \in Task \ {s} : ~ At(r, "idle")' => th'[r].obj # th'[s].obj
    BY DEF AddsAlone, OnRecord
  <2>1. ~ At(s, "idle")' /\ th'[s].obj = th[s].obj
    BY <1>2 DEF SameRequest, At
  <2> QED
    BY <1>2, <1>5, <2>1 DEF RightsInv, AddsAlone, ReliedOn, SameRequest
<1>7. ASSUME NEW s \in Task PROVE Entitled(s)'
  <2> SUFFICES ASSUME th'[s].fresh, ~ At(s, "idle")'
               PROVE  /\ th'[s].op \in OwnerOps /\ th'[s].pc \in {"start", "delete"} =>
                            /\ rec'[th'[s].obj] # NoRecord
                            /\ rec'[th'[s].obj].owner = th'[s].by
                      /\ th'[s].op = "get_content" =>
                            /\ rec'[th'[s].obj] # NoRecord
                            /\ th'[s].obj \in Restricted => th'[s].by \in rec'[th'[s].obj].access
    BY DEF Entitled, OnRecord, IsOwner, HasAccess
  <2>1. /\ ~ At(s, "idle") /\ th[s].fresh
        /\ th'[s].obj = th[s].obj /\ th'[s].op = th[s].op /\ th'[s].by = th[s].by
    BY <1>2 DEF SameRequest
  <2>2. th'[s].pc \in {"start", "delete"} => th[s].pc \in {"start", "delete"}
    BY <1>1 DEF Follows, OthersKept, At
  <2>3. Entitled(s)
    BY DEF RightsInv
  <2> QED
    BY <2>1, <2>2, <2>3 DEF Entitled, ReliedOn
<1> QED
  BY <1>3, <1>4, <1>6, <1>7 DEF RightsInv

\* No step of a request takes away what a fresh one relies on.
LEMMA ServeReliable ==
    ASSUME TypeInv, RightsInv, NEW t \in Task, Serve(t)
    PROVE  ReliedOn /\ \A o \in Object : OnRecord(o)' => o \in added
<1>0. /\ added' = added /\ ~ At(t, "idle") /\ OthersKept(t)
      /\ \A s \in Task \ {t} : SameRequest(s)
      /\ th'[t].pc = "idle" \/ (SameRequest(t) /\ Follows(t))
      /\ th[t].obj \in Object
      /\ rec \in [Object -> Records \cup {NoRecord}]
  BY ServeFollows, AtWork DEF TypeInv, TypeOK
<1>1. PICK x \in Object : x = th[t].obj
  BY <1>0
<1>2. \A s \in Task : ~ At(s, "idle")' => SameRequest(s) /\ ~ At(s, "idle")
  BY <1>0 DEF OthersKept, At
<1>3. CASE rec' = rec
  BY <1>2, <1>3 DEF ReliedOn, OnRecord, IsOwner, HasAccess, RightsInv, Known, AddsAlone
<1>4. CASE AddRecord(t)
  <2>1. At(t, "commit") /\ th' = Done(t) /\ rec' = [rec EXCEPT ![x] = NewRecord(x)]
    BY <1>1, <1>4 DEF AddRecord
  <2>2. At(t, "idle")'
    BY <2>1, Ends DEF At
  <2>3. \A s \in Task : ~ At(s, "idle")' => th[s].obj # x
    BY <1>1, <1>2, <2>1, <2>2 DEF RightsInv, AddsAlone
  <2>4. \A o \in Object : o # x => rec'[o] = rec[o]
    BY <1>0, <2>1
  <2>5. \A s \in Task : ~ At(s, "idle")' => rec'[th[s].obj] = rec[th[s].obj]
    BY <1>0, <1>2, <2>1, <2>3 DEF TypeInv, TypeOK
  <2>6. x \in added
    BY <1>0, <1>1 DEF RightsInv, Known
  <2> QED
    BY <1>2, <2>4, <2>5, <2>6 DEF ReliedOn, OnRecord, IsOwner, HasAccess, RightsInv, Known, AddsAlone
<1>5. CASE DeleteRecord(t)
  <2>1. /\ rec' = [rec EXCEPT ![x] = NoRecord] /\ At(t, "delete") /\ "count" \in Pcs
        /\ th' = Staling(To(t, "count"), t, x)
    BY <1>1, <1>5 DEF DeleteRecord, Pcs
  <2>2. /\ \A o \in Object : o # x => rec'[o] = rec[o]
        /\ \A o \in Object : rec'[o] = rec[o] \/ rec'[o] = NoRecord
    BY <1>0, <2>1
  <2>3. th[t].op = "remove" /\ th'[t].pc = "count"
    BY <2>1, SameRequests DEF RightsInv, Shaped
  <2>4. \A s \in Task \ {t} : th[s].obj = x => ~ th'[s].fresh
    BY <2>1, <2>3, SameRequests DEF Takes
  <2>5. \A s \in Task : ~ At(s, "idle")' => th[s].obj \in Object
    BY <1>2 DEF TypeInv, TypeOK
  <2>6. \A s \in Task : ~ At(s, "idle")' /\ (At(s, "store") \/ At(s, "commit")) =>
           rec'[th[s].obj] = NoRecord
    BY <1>2, <2>2, <2>5 DEF RightsInv, AddsAlone, OnRecord
  <2>7. \A s \in Task : ~ At(s, "idle")' /\ s # t /\ th'[s].fresh =>
           rec'[th[s].obj] = rec[th[s].obj]
    BY <2>2, <2>4, <2>5
  <2>8. ReliedOn
    BY <2>3, <2>6, <2>7 DEF ReliedOn, OnRecord, IsOwner, HasAccess
  <2> QED
    BY <2>2, <2>8 DEF OnRecord, RightsInv, Known
<1>6. CASE Alter(t) /\ rec' # rec
  <2>1. /\ At(t, "start") /\ th[t].op \in ManageOps /\ OnRecord(x) /\ "touch" \in Pcs
        /\ rec' = [rec EXCEPT ![x] = Altered(rec[x], th[t].op, th[t].arg)]
        /\ th' = Staling(To(t, "touch"), t, x)
    BY <1>1, <1>6 DEF Alter, Pcs
  <2>2. /\ th'[t].pc = "touch" /\ th[t].op # "get_content"
        /\ \A s \in Task \ {t} :
              th[s].obj = x /\ Takes(th[t].op, th[t].arg, th[s]) => ~ th'[s].fresh
    BY <2>1, SameRequests DEF ManageOps
  <2>3. \A o \in Object : OnRecord(o)' <=> OnRecord(o)
    BY <1>6, AlterKeeps
  <2>4. /\ rec'[x] = Altered(rec[x], th[t].op, th[t].arg)
        /\ \A o \in Object : o # x => rec'[o] = rec[o]
    BY <1>0, <2>1
  <2>5. \A s \in Task : ~ At(s, "idle")' => th[s].obj \in Object
    BY <1>2 DEF TypeInv, TypeOK
  <2>6. ASSUME NEW s \in Task, s # t, th[s].obj = x, th'[s].fresh
        PROVE  /\ th[s].op \in OwnerOps /\ rec[x].owner = th[s].by => rec'[x].owner = th[s].by
               /\ th[s].op = "get_content" /\ th[s].by \in rec[x].access =>
                     th[s].by \in rec'[x].access
    <3>1. rec[x] \in Records /\ ~ Takes(th[t].op, th[t].arg, th[s])
      BY <1>0, <1>1, <2>1, <2>2, <2>6 DEF OnRecord
    <3>2. CASE th[t].op = "grant"
      BY <2>4, <3>1, <3>2 DEF Altered, Records
    <3>3. CASE th[t].op = "revoke"
      BY <2>4, <3>1, <3>3 DEF Altered, Records, Takes
    <3>4. CASE th[t].op = "transfer"
      BY <2>4, <3>1, <3>4 DEF Altered, Records, Takes
    <3>5. CASE th[t].op = "tags"
      BY <2>4, <3>5 DEF Altered
    <3> QED
      BY <2>1, <3>2, <3>3, <3>4, <3>5 DEF ManageOps
  <2>7. ASSUME NEW s \in Task, ~ At(s, "idle")', th'[s].fresh
        PROVE  /\ th[s].op \in OwnerOps /\ th'[s].pc \in {"start", "delete"}
                     /\ OnRecord(th[s].obj) /\ IsOwner(th[s].obj, th[s].by) =>
                  rec'[th[s].obj] # NoRecord /\ rec'[th[s].obj].owner = th[s].by
               /\ th[s].op = "get_content"
                     /\ OnRecord(th[s].obj) /\ HasAccess(th[s].obj, th[s].by) =>
                  /\ rec'[th[s].obj] # NoRecord
                  /\ th[s].obj \in Restricted => th[s].by \in rec'[th[s].obj].access
    <3>1. th[s].obj \in Object /\ (rec'[th[s].obj] # NoRecord <=> OnRecord(th[s].obj))
      BY <2>3, <2>5, <2>7 DEF OnRecord
    <3>2. CASE s = t
      BY <2>2, <3>2
    <3>3. CASE th[s].obj # x
      BY <2>4, <3>1, <3>3 DEF IsOwner, HasAccess
    <3>4. CASE s # t /\ th[s].obj = x
      BY <2>6, <2>7, <3>1, <3>4 DEF IsOwner, HasAccess
    <3> QED
      BY <3>2, <3>3, <3>4
  <2>8. \A s \in Task : ~ At(s, "idle")' /\ (At(s, "store") \/ At(s, "commit")) =>
           rec'[th[s].obj] = NoRecord
    BY <1>2, <2>3, <2>5 DEF RightsInv, AddsAlone, OnRecord
  <2>9. ReliedOn
    BY <2>7, <2>8 DEF ReliedOn
  <2> QED
    BY <2>3, <2>9 DEF RightsInv, Known
<1>7. \/ AddRecord(t) \/ DeleteRecord(t) \/ Alter(t) \/ rec' = rec
  BY DEF Serve, JoinContent, StoreContent, StoreRefused, ReadMeta, CountReferences, Unlink,
     FindFile, Touch, Send
<1> QED
  BY <1>3, <1>4, <1>5, <1>6, <1>7
\* An object that was not known is handed to add.
LEMMA RightsAdding ==
    ASSUME TypeInv, RightsInv, NEW t \in Task, NEW o \in Object, o \notin added, At(t, "idle"),
           th' = Adding(t, o), added' = added \cup {o}, rec' = rec
    PROVE  RightsInv'
<1> DEFINE r == [Idle EXCEPT !.pc = "store", !.obj = o]
<1>1. r.op = "add" /\ r.pc = "store" /\ r.obj = o
  BY DEF Idle
<1>2. th'[t] = r /\ \A s \in Task \ {t} : th'[s] = th[s]
  BY DEF Adding, TypeInv, TypeOK
<1> HIDE DEF r
<1>3. ~ OnRecord(o) /\ \A s \in Task : ~ At(s, "idle") => th[s].obj # o
  BY DEF RightsInv, Known
<1>4. "add" \notin OwnerOps
  BY DEF OwnerOps, ManageOps
<1>5. Known' /\ Shaped' /\ AddsAlone'
  BY <1>1, <1>2, <1>3 DEF RightsInv, Known, Shaped, AddsAlone, OnRecord, At
<1>6. \A s \in Task : Entitled(s)'
  BY <1>1, <1>2, <1>4 DEF RightsInv, Entitled, OnRecord, IsOwner, HasAccess, At
<1> QED
  BY <1>5, <1>6 DEF RightsInv

\* A request that was allowed, or a fetch.
LEMMA RightsBegins ==
    ASSUME TypeInv, RightsInv, NEW t \in Task, NEW o \in Object, OnRecord(o),
           NEW r, r.obj = o, r.pc \in {"start", "file"},
           r.op \in OwnerOps /\ r.pc = "start" => IsOwner(o, r.by),
           r.op = "get_content" => HasAccess(o, r.by),
           th' = [th EXCEPT ![t] = r], added' = added, rec' = rec
    PROVE  RightsInv'
<1>1. th'[t] = r /\ \A s \in Task \ {t} : th'[s] = th[s]
  BY DEF TypeInv, TypeOK
<1>2. o \in added
  BY DEF RightsInv, Known
<1>3. \A s \in Task : At(s, "store") \/ At(s, "commit") => th[s].obj # o
  BY DEF RightsInv, AddsAlone
<1>4. Known' /\ Shaped' /\ AddsAlone'
  BY <1>1, <1>2, <1>3 DEF RightsInv, Known, Shaped, AddsAlone, OnRecord, At
<1>5. \A s \in Task : Entitled(s)'
  BY <1>1 DEF RightsInv, Entitled, OnRecord, IsOwner, HasAccess, At
<1> QED
  BY <1>4, <1>5 DEF RightsInv

\* The response of a download takes over its request, standing included.
LEMMA RightsResponds == ASSUME TypeInv, RightsInv, NEW s \in Stream, Respond(s) PROVE RightsInv'
<1>1. /\ s \in Task /\ "rest" \in Task /\ Handover(s)
      /\ UNCHANGED <<rec, added>> /\ At("rest", "send") /\ At(s, "idle")
  BY RespondTypes DEF Respond
<1>2. \A r \in Task : ~ At(r, "idle")' =>
        \/ r = s /\ th'[r] = th["rest"]
        \/ r # s /\ r # "rest" /\ th'[r] = th[r]
  BY <1>1 DEF Handover, At, Idle
<1>3. ~ At("rest", "idle")
  BY <1>1 DEF At
<1>4. Known' /\ Shaped'
  BY <1>1, <1>2, <1>3 DEF RightsInv, Known, Shaped, OnRecord, At
<1>5. AddsAlone'
  BY <1>1, <1>2, <1>3 DEF RightsInv, AddsAlone, OnRecord, At
<1>6. \A r \in Task : Entitled(r)'
  BY <1>1, <1>2, <1>3 DEF RightsInv, Entitled, OnRecord, IsOwner, HasAccess, At
<1> QED
  BY <1>4, <1>5, <1>6 DEF RightsInv

\* RightsInv is inductive, given the types and the uploads.
LEMMA RightsNext == TypeInv /\ UploadInv /\ RightsInv /\ [Next]_vars => RightsInv'
<1> SUFFICES ASSUME TypeInv, UploadInv, RightsInv, [Next]_vars PROVE RightsInv'
  OBVIOUS
<1>0. "rest" \in Task /\ "p2p" \in Task
  BY DEF Task, Thread
<1>1. ASSUME UNCHANGED <<rec, th, added>> PROVE RightsInv'
  BY <1>1 DEF RightsInv, Known, Shaped, AddsAlone, Entitled, OnRecord, IsOwner, HasAccess, At
<1>2. ASSUME NEW t \in Task, NEW o \in Object, StartAdd(t, o) PROVE RightsInv'
  BY <1>2, RightsAdding DEF StartAdd
<1>3. CASE UNCHANGED vars
  BY <1>1, <1>3 DEF vars
<1>4. CASE Upload
  <2>1. PICK o \in Object : FirstPart(o) \/ PartFails(o) \/ \E i \in 1..Parts[o] : NextPart(o, i)
    BY <1>4 DEF Upload
  <2>2. CASE FirstPart(o) \/ PartFails(o)
    BY <1>1, <2>2 DEF FirstPart, PartFails
  <2>3. ASSUME NEW i \in 1..Parts[o], NextPart(o, i) PROVE RightsInv'
    <3>1. \/ UNCHANGED <<rec, th, added>>
          \/ /\ th' = Adding("rest", o) /\ added' = added \cup {o} /\ rec' = rec
      BY <2>3 DEF NextPart
    <3>2. o \notin added /\ At("rest", "idle")
      BY <2>3 DEF NextPart, UploadInv, InOrder
    <3> QED
      BY <1>0, <1>1, <3>1, <3>2, RightsAdding
  <2> QED
    BY <2>1, <2>2, <2>3
<1>5. ASSUME NEW o \in Object, NEW u \in User, Fetch(o, u) PROVE RightsInv'
  <2> DEFINE r == [op |-> "get_content", pc |-> "file", obj |-> o, by |-> u,
                   arg |-> NoRecord, fresh |-> TRUE]
  <2>1. /\ r.obj = o /\ r.pc = "file" /\ r.op = "get_content" /\ r.by = u
        /\ th' = [th EXCEPT !["p2p"] = r]
        /\ OnRecord(o) /\ HasAccess(o, u) /\ added' = added /\ rec' = rec
    BY <1>5 DEF Fetch, MayFetch, HasAccess
  <2> HIDE DEF r
  <2> QED
    BY <1>0, <2>1, RightsBegins
<1>6. CASE Peers
  BY <1>0, <1>1, <1>2, <1>5, <1>6 DEF Peers, PushAdd, RelayPush, vars
<1>7. CASE Crash
  <2>1. \A t \in Task : th'[t].pc = "idle"
    BY <1>7, CrashTypes
  <2> QED
    BY <1>7, <2>1 DEF Crash, RightsInv, Known, Shaped, AddsAlone, Entitled, OnRecord, At
<1>8. ASSUME NEW t \in Task, NEW op \in Ops \ {"add"}, NEW o \in Object, NEW u \in User,
             NEW arg, Check(t, op, o, u, arg)
      PROVE  RightsInv'
  <2> DEFINE r == [op |-> op, pc |-> "start", obj |-> o, by |-> u, arg |-> arg, fresh |-> TRUE]
  <2>1. /\ r.obj = o /\ r.pc = "start" /\ r.op = op /\ r.by = u
        /\ th' = [th EXCEPT ![t] = r]
        /\ OnRecord(o) /\ added' = added /\ rec' = rec
    BY <1>8 DEF Check
  <2>2. (op \in OwnerOps => IsOwner(o, u)) /\ (op = "get_content" => HasAccess(o, u))
    BY <1>8 DEF Check, Allowed, OwnerOps, ManageOps
  <2> HIDE DEF r
  <2> QED
    BY <2>1, <2>2, RightsBegins
<1>9. ASSUME NEW t \in Task, Requests(t) PROVE RightsInv'
  BY <1>2, <1>8, <1>9 DEF Requests
<1>10. ASSUME NEW t \in Task, Serve(t) PROVE RightsInv'
  BY <1>10, RightsServe, ServeReliable
<1>11. ASSUME NEW s \in Stream, Respond(s) PROVE RightsInv'
  BY <1>11, RightsResponds
<1> QED
  BY <1>3, <1>4, <1>6, <1>7, <1>9, <1>10, <1>11, NextCases

\* A change of a record is the owner's, a delivery goes to a user with access.
RightsStep ==
    \A o \in Object :
        /\ OnRecord(o) /\ rec'[o] # rec[o] =>
              \E t \in Task : Changes(t, o) /\ (IsOwner(o, th[t].by) \/ ~ th[t].fresh)
        /\ \A t \in Task : Delivers(t, o) /\ th[t].fresh => OnRecord(o) /\ HasAccess(o, th[t].by)

\* From RightsInv, a step changes a record, or sends a content, only for who may.
LEMMA RightsKept == TypeInv /\ RightsInv /\ [Next]_vars => RightsStep
<1> SUFFICES ASSUME TypeInv, RightsInv, [Next]_vars, NEW o \in Object
             PROVE  /\ OnRecord(o) /\ rec'[o] # rec[o] =>
                          \E t \in Task :
                             Changes(t, o) /\ (IsOwner(o, th[t].by) \/ ~ th[t].fresh)
                    /\ \A t \in Task : Delivers(t, o) /\ th[t].fresh =>
                          OnRecord(o) /\ HasAccess(o, th[t].by)
  BY DEF RightsStep
<1>1. ASSUME NEW t \in Task, Delivers(t, o), th[t].fresh
      PROVE  OnRecord(o) /\ HasAccess(o, th[t].by)
  <2>1. ~ At(t, "idle") /\ th[t].op = "get_content" /\ th[t].obj = o
    BY <1>1 DEF Delivers, RightsInv, Shaped, At
  <2> QED
    BY <1>1, <2>1 DEF RightsInv, Entitled
<1>2. ASSUME OnRecord(o), rec'[o] # rec[o]
      PROVE  \E t \in Task : Changes(t, o) /\ (IsOwner(o, th[t].by) \/ ~ th[t].fresh)
  <2>1. PICK t \in Task : AddRecord(t) \/ DeleteRecord(t) \/ (Alter(t) /\ rec' # rec)
    <3>1. ~ UNCHANGED vars /\ ~ Upload /\ ~ Crash /\ \A s \in Stream : ~ Respond(s)
      BY <1>2 DEF vars, Upload, FirstPart, NextPart, PartFails, Crash, Respond
    <3>2. ~ Peers
      BY <1>2 DEF Peers, PushAdd, RelayPush, StartAdd, Fetch, vars
    <3>3. \A t \in Task : ~ Requests(t)
      BY <1>2 DEF Requests, StartAdd, Check
    <3> QED
      BY <1>2, <3>1, <3>2, <3>3, NextCases DEF Serve, JoinContent, StoreContent, StoreRefused, ReadMeta,
         CountReferences, Unlink, FindFile, Touch, Send
  <2>2. rec \in [Object -> Records \cup {NoRecord}] /\ "count" \in Pcs /\ "touch" \in Pcs
    BY DEF TypeInv, TypeOK, Pcs
  <2>3. CASE AddRecord(t)
    <3>1. th[t].obj = o
      BY <1>2, <2>2, <2>3 DEF AddRecord
    <3> QED
      BY <1>2, <2>3, <3>1 DEF AddRecord, RightsInv, AddsAlone
  <2>4. CASE DeleteRecord(t)
    <3>1. At(t, "delete") /\ th[t].obj = o /\ th'[t].pc = "count"
      BY <1>2, <2>2, <2>4, SameRequests DEF DeleteRecord
    <3>2. Changes(t, o) /\ ~ At(t, "idle") /\ th[t].op \in OwnerOps
      BY <3>1 DEF Changes, RightsInv, Shaped, OwnerOps, At
    <3> QED
      BY <1>2, <3>1, <3>2 DEF RightsInv, Entitled, Shaped, At
  <2>5. CASE Alter(t) /\ rec' # rec
    <3>1. /\ At(t, "start") /\ th[t].obj = o /\ th[t].op \in ManageOps
          /\ th' = Staling(To(t, "touch"), t, o)
      BY <1>2, <2>2, <2>5 DEF Alter
    <3>2. th'[t].pc = "touch"
      BY <2>2, <3>1, SameRequests
    <3>3. Changes(t, o) /\ ~ At(t, "idle") /\ th[t].op \in OwnerOps
      BY <3>1, <3>2 DEF Changes, OwnerOps, At
    <3> QED
      BY <1>2, <3>1, <3>3 DEF RightsInv, Entitled, At
  <2> QED
    BY <2>1, <2>3, <2>4, <2>5
<1> QED
  BY <1>1, <1>2

\* Owner and rights are changed, and a content opened to be sent, only for a user who has
\* the right to it at that moment, or from whom another request, of the same loop or the
\* other, took it since the check.
THEOREM RightsCorrect == Spec => RightsHeld
<1>1. Init => UploadInv /\ RightsInv
  BY DEF Init, UploadInv, InOrder, NoUpload, RightsInv, Known, Shaped, AddsAlone, Entitled,
     OnRecord, At, Idle
<1>2. TypeInv /\ RightsInv /\ [Next]_vars =>
        [\A o \in Object :
          /\ OnRecord(o) /\ rec'[o] # rec[o] =>
                \E t \in Task : Changes(t, o) /\ (IsOwner(o, th[t].by) \/ ~ th[t].fresh)
          /\ \A t \in Task : Delivers(t, o) /\ th[t].fresh =>
                OnRecord(o) /\ HasAccess(o, th[t].by)]_vars
  BY RightsKept DEF RightsStep
<1> QED
  BY <1>1, <1>2, TypeInit, TypeNext, UploadNext, RightsNext, PTL DEF Spec, RightsHeld
=================================================================================
