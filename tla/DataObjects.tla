----------------------------- MODULE DataObjects -----------------------------
(***************************************************************************)
(* The data object repository of one node (plugins/builtins/dor_fs): the   *)
(* table of object records and the directory of contents.  Objects with    *)
(* the same content hash share one read-only file.  Requests arrive on two *)
(* event loops, each in a thread of its own: the REST server and the P2P   *)
(* service (object protocols and namespace calls).  Within a loop nothing  *)
(* suspends between the steps of a handler, so a thread runs one handler   *)
(* at a time; the two threads interleave at every database session and at  *)
(* every file operation, and only the sections under _db_mutex exclude     *)
(* each other.  The handler of a download only returns a response: a task  *)
(* of the REST loop opens the file later, while that loop serves others.   *)
(***************************************************************************)
EXTENDS Integers, Sequences, FiniteSets

CONSTANTS
    Object,       \* uploads; an object id is a hash with the time, never used twice
    Content,      \* content hashes
    User,
    ContentOf,    \* [Object -> Content]
    OwnerOf,      \* [Object -> User], the owner named by the upload
    Restricted,   \* the objects uploaded with access_restricted
    Managed,      \* bound: the objects whose rights or tags are changed
    Parts,        \* [Object -> Nat], the parts a REST upload is sent in
    Stream,       \* bound: the REST downloads whose response may be under way at once
    NoRecord,     \* no row for an object, no object of a request
    MaxCrashes    \* bound: restarts of the node

ASSUME ObjectsAssumption ==
    /\ ContentOf \in [Object -> Content]
    /\ OwnerOf \in [Object -> User]
    /\ Restricted \subseteq Object /\ Managed \subseteq Object
    /\ Parts \in [Object -> Nat \ {0}]
    /\ NoRecord \notin Object /\ NoRecord \notin User
    /\ NoRecord \notin [owner : User, access : SUBSET User]
    /\ "rest" \notin Stream /\ "p2p" \notin Stream
    /\ MaxCrashes \in Nat

VARIABLES
    rec,       \* obj_record: the rows by object id
    file,      \* contents in the master directory
    th,        \* the request each thread serves, or each response is for
    upload,    \* _parts: multi-part uploads, idx and the parts in their file
    added,     \* objects whose upload has been handed to add
    spoilt,    \* history: contents stored while their removal was under way
    stranded,  \* history: contents a crash left without a record
    crashes

vars == <<rec, file, th, upload, added, spoilt, stranded, crashes>>

Thread == {"rest", "p2p"}
Task == Thread \cup Stream
Records == [owner : User, access : SUBSET User]
\* "tags" is update_tags or remove_tags: the tags themselves are left out
ManageOps == {"grant", "revoke", "transfer", "tags"}
OwnerOps == ManageOps \cup {"remove"}
Ops == OwnerOps \cup {"add", "get_content"}
Pcs == {"idle", "store", "commit", "start", "delete", "count", "unlink",
        "file", "touch", "send"}

\* fresh: no other request has taken away what it was allowed by since its check
Idle == [op |-> "add", pc |-> "idle", obj |-> NoRecord, by |-> NoRecord,
         arg |-> NoRecord, fresh |-> TRUE]
NoUpload == [idx |-> -1, written |-> <<>>, open |-> FALSE]

OnRecord(o) == rec[o] # NoRecord
RecordsOf(c) == {o \in Object : OnRecord(o) /\ ContentOf[o] = c}
At(t, pc) == th[t].pc = pc
Handles(t, c) == th[t].obj \in Object /\ ContentOf[th[t].obj] = c
\* _db_mutex: add holds it from the look at the table to the commit
Unlocked == \A t \in Task : ~ At(t, "commit")

To(t, pc) == [th EXCEPT ![t].pc = pc]
Done(t) == [th EXCEPT ![t] = Idle]
\* what an operation with argument u takes from another request r on the same object
Takes(op, u, r) ==
    \/ op = "remove"
    \/ op = "revoke" /\ r.op = "get_content" /\ r.by = u
    \/ op = "transfer" /\ r.op \in OwnerOps /\ r.by # u
\* the step of t takes away what other requests on o, of its own loop too, relied on
Staling(f, t, o) ==
    [s \in Task |-> IF s # t /\ f[s].obj = o /\ Takes(f[t].op, f[t].arg, f[s])
                    THEN [f[s] EXCEPT !.fresh = FALSE] ELSE f[s]]

Init ==
    /\ rec = [o \in Object |-> NoRecord]
    /\ file = {}
    /\ th = [t \in Task |-> Idle]
    /\ upload = [o \in Object |-> NoUpload]
    /\ added = {}
    /\ spoilt = {} /\ stranded = {}
    /\ crashes = 0

-----------------------------------------------------------------------------
(* Uploads *)

Adding(t, o) == [th EXCEPT ![t] = [Idle EXCEPT !.pc = "store", !.obj = o]]

\* an upload in one piece: POST add, or add called through a namespace
StartAdd(t, o) ==
    /\ At(t, "idle") /\ o \notin added
    /\ Parts[o] = 1
    /\ th' = Adding(t, o)
    /\ added' = added \cup {o}
    /\ UNCHANGED <<rec, file, upload, spoilt, stranded, crashes>>

\* a peer pushes an object
PushAdd(o) == StartAdd("p2p", o)

\* a runner asks its custodian to push to a target: the custodian adds the object
\* itself when it is the target, else it passes the push on or refuses it
RelayPush(o, target) ==
    IF target = "self" THEN PushAdd(o) ELSE At("p2p", "idle") /\ UNCHANGED vars

\* part 0 opens a file, and opens a new one when the upload is sent again
FirstPart(o) ==
    /\ At("rest", "idle") /\ Parts[o] > 1 /\ o \notin added
    /\ upload' = [upload EXCEPT ![o] = [idx |-> 0, written |-> <<0>>, open |-> TRUE]]
    /\ UNCHANGED <<rec, file, th, added, spoilt, stranded, crashes>>

\* Fault: the index of a part is not compared with the last one
AnyPart(o, i) == i > 0

InSequence(o, i) == i = upload[o].idx + 1

\* a part of an upload the node knows, in sequence; the last one starts the add
NextPart(o, i) ==
    /\ At("rest", "idle") /\ upload[o].open /\ InSequence(o, i)
    /\ upload' = [upload EXCEPT ![o] = [idx |-> i, written |-> Append(@.written, i),
                                        open |-> i < Parts[o] - 1]]
    /\ IF i < Parts[o] - 1 THEN UNCHANGED <<th, added>>
       ELSE th' = Adding("rest", o) /\ added' = added \cup {o}
    /\ UNCHANGED <<rec, file, spoilt, stranded, crashes>>

\* a write error removes the file and forgets the upload
PartFails(o) ==
    /\ At("rest", "idle") /\ upload[o].open
    /\ upload' = [upload EXCEPT ![o] = NoUpload]
    /\ UNCHANGED <<rec, file, th, added, spoilt, stranded, crashes>>

\* the content is known: the uploaded file is deleted
JoinContent(t) ==
    /\ At(t, "store") /\ Unlocked
    /\ RecordsOf(ContentOf[th[t].obj]) # {}
    /\ th' = To(t, "commit")
    /\ UNCHANGED <<rec, file, upload, added, spoilt, stranded, crashes>>

\* the content is new: the uploaded file is copied.  A file left from before is
\* read-only: a process of root overwrites it
StoreContent(t) ==
    LET c == ContentOf[th[t].obj] IN
    /\ At(t, "store") /\ Unlocked
    /\ RecordsOf(c) = {}
    /\ file' = file \cup {c}
    /\ spoilt' = IF \E s \in Task : At(s, "unlink") /\ Handles(s, c)
                 THEN spoilt \cup {c} ELSE spoilt \ {c}
    /\ stranded' = stranded \ {c}
    /\ th' = To(t, "commit")
    /\ UNCHANGED <<rec, upload, added, crashes>>

\* ... and any other process gets a PermissionError
StoreRefused(t) ==
    LET c == ContentOf[th[t].obj] IN
    /\ At(t, "store") /\ Unlocked
    /\ RecordsOf(c) = {} /\ c \in file
    /\ th' = Done(t)
    /\ UNCHANGED <<rec, file, upload, added, spoilt, stranded, crashes>>

\* Fault: the owner is looked up again for the record, and is not found
WithoutOwner(o) == [owner |-> NoRecord, access |-> {OwnerOf[o]}]

NewRecord(o) == [owner |-> OwnerOf[o], access |-> {OwnerOf[o]}]

AddRecord(t) ==
    /\ At(t, "commit")
    /\ rec' = [rec EXCEPT ![th[t].obj] = NewRecord(th[t].obj)]
    /\ th' = Done(t)
    /\ UNCHANGED <<file, upload, added, spoilt, stranded, crashes>>

-----------------------------------------------------------------------------
(* Requests on an object: the check of the caller's rights, then the call *)

IsOwner(o, u) == rec[o].owner = u
HasAccess(o, u) == o \in Restricted => u \in rec[o].access
\* Fault: the interface method is not marked with requires_ownership
ChecksAccessOnly(op, o, u) == HasAccess(o, u)

Allowed(op, o, u) == IF op \in OwnerOps THEN IsOwner(o, u) ELSE HasAccess(o, u)

Check(t, op, o, u, arg) ==
    /\ At(t, "idle") /\ OnRecord(o)
    /\ op \in ManageOps => o \in Managed
    /\ Allowed(op, o, u)
    /\ th' = [th EXCEPT ![t] = [op |-> op, pc |-> "start", obj |-> o, by |-> u,
                                arg |-> arg, fresh |-> TRUE]]
    /\ UNCHANGED <<rec, file, upload, added, spoilt, stranded, crashes>>

MayFetch(o, u) == o \in Restricted => u \in User /\ u \in rec[o].access

\* the fetch protocol makes its own check, against the meta information it then uses
Fetch(o, u) ==
    /\ At("p2p", "idle") /\ OnRecord(o) /\ MayFetch(o, u)
    /\ th' = [th EXCEPT !["p2p"] = [op |-> "get_content", pc |-> "file", obj |-> o,
                                    by |-> u, arg |-> NoRecord, fresh |-> TRUE]]
    /\ UNCHANGED <<rec, file, upload, added, spoilt, stranded, crashes>>

\* remove and get_content read the meta information first
ReadMeta(t) ==
    /\ At(t, "start") /\ th[t].op \in {"remove", "get_content"}
    /\ th' = IF ~ OnRecord(th[t].obj) THEN Done(t)
             ELSE To(t, IF th[t].op = "remove" THEN "delete" ELSE "file")
    /\ UNCHANGED <<rec, file, upload, added, spoilt, stranded, crashes>>

DeleteRecord(t) ==
    LET o == th[t].obj IN
    /\ At(t, "delete") /\ Unlocked
    /\ rec' = [rec EXCEPT ![o] = NoRecord]
    /\ th' = Staling(To(t, "count"), t, o)
    /\ UNCHANGED <<file, upload, added, spoilt, stranded, crashes>>

\* Fault: the content is unlinked without a look at the other records
UnlinksAlways(t) ==
    /\ At(t, "count") /\ Unlocked
    /\ th' = To(t, "unlink")
    /\ UNCHANGED <<rec, file, upload, added, spoilt, stranded, crashes>>

\* Fault: the file is left to an upload of the same content that is under way
LeavesToUpload(t) ==
    LET c == ContentOf[th[t].obj] IN
    /\ At(t, "count") /\ Unlocked
    /\ th' = IF RecordsOf(c) = {} /\ \A s \in Task : ~ (At(s, "store") /\ Handles(s, c))
             THEN To(t, "unlink") ELSE Done(t)
    /\ UNCHANGED <<rec, file, upload, added, spoilt, stranded, crashes>>

\* a second section counts the records that still refer to the content
CountReferences(t) ==
    /\ At(t, "count") /\ Unlocked
    /\ th' = IF RecordsOf(ContentOf[th[t].obj]) = {} THEN To(t, "unlink") ELSE Done(t)
    /\ UNCHANGED <<rec, file, upload, added, spoilt, stranded, crashes>>

\* outside the lock; a file already gone raises, with the record deleted all the same
Unlink(t) ==
    /\ At(t, "unlink")
    /\ file' = file \ {ContentOf[th[t].obj]}
    /\ th' = Done(t)
    /\ UNCHANGED <<rec, upload, added, spoilt, stranded, crashes>>

Altered(r, op, u) ==
    CASE op = "grant" -> [r EXCEPT !.access = @ \cup {u}]
      [] op = "revoke" -> [r EXCEPT !.access = @ \ {u}]
      [] op = "transfer" -> [r EXCEPT !.owner = u]
      [] op = "tags" -> r

\* grant_access, revoke_access, transfer_ownership, update_tags, remove_tags
Alter(t) ==
    LET o == th[t].obj IN
    /\ At(t, "start") /\ th[t].op \in ManageOps /\ Unlocked
    /\ IF OnRecord(o)
       THEN /\ rec' = [rec EXCEPT ![o] = Altered(@, th[t].op, th[t].arg)]
            /\ th' = Staling(To(t, "touch"), t, o)
       ELSE th' = Done(t) /\ UNCHANGED rec
    /\ UNCHANGED <<file, upload, added, spoilt, stranded, crashes>>

\* get_content, rest_get_content and the fetch protocol look for the file
FindFile(t) ==
    /\ At(t, "file")
    /\ th' = IF ContentOf[th[t].obj] \in file THEN To(t, "touch") ELSE Done(t)
    /\ UNCHANGED <<rec, file, upload, added, spoilt, stranded, crashes>>

\* last_accessed; NotFoundError when the record is gone
Touch(t) ==
    /\ At(t, "touch") /\ Unlocked
    /\ th' = IF th[t].op = "get_content" /\ OnRecord(th[t].obj)
             THEN To(t, "send") ELSE Done(t)
    /\ UNCHANGED <<rec, file, upload, added, spoilt, stranded, crashes>>

\* rest_get_content returns a StreamingResponse, and the loop is free for other handlers
Respond(s) ==
    /\ At("rest", "send") /\ At(s, "idle")
    /\ th' = [th EXCEPT ![s] = th["rest"], !["rest"] = Idle]
    /\ UNCHANGED <<rec, file, upload, added, spoilt, stranded, crashes>>

\* the file is opened when the answer is sent: by the p2p loop, before it takes another
\* request, and by the iterator of a StreamingResponse; a file that is gone raises
Send(t) ==
    /\ At(t, "send") /\ t # "rest"
    /\ th' = Done(t)
    /\ UNCHANGED <<rec, file, upload, added, spoilt, stranded, crashes>>

\* requests and the table of uploads are lost; records and files stay
Crash ==
    /\ crashes < MaxCrashes
    /\ crashes' = crashes + 1
    /\ th' = [t \in Task |-> Idle]
    /\ upload' = [o \in Object |-> [upload[o] EXCEPT !.open = FALSE]]
    /\ stranded' = {c \in file : RecordsOf(c) = {}}
    /\ UNCHANGED <<rec, file, added, spoilt>>

-----------------------------------------------------------------------------

Arguments(op) == IF op \in {"grant", "revoke", "transfer"} THEN User ELSE {NoRecord}

Requests(t) ==
    \/ \E o \in Object : StartAdd(t, o)
    \/ \E op \in Ops \ {"add"}, o \in Object, u \in User : \E arg \in Arguments(op) :
          Check(t, op, o, u, arg)

Peers ==
    \E o \in Object :
        \/ PushAdd(o)
        \/ \E target \in {"self", "peer", "unknown"} : RelayPush(o, target)
        \/ \E u \in User : Fetch(o, u)

Upload ==
    \E o \in Object :
        \/ FirstPart(o)
        \/ \E i \in 1..Parts[o] : NextPart(o, i)
        \/ PartFails(o)

Serve(t) ==
    \/ JoinContent(t) \/ StoreContent(t) \/ StoreRefused(t) \/ AddRecord(t)
    \/ ReadMeta(t) \/ DeleteRecord(t) \/ CountReferences(t) \/ Unlink(t)
    \/ Alter(t) \/ FindFile(t) \/ Touch(t) \/ Send(t)

Next ==
    \/ Upload \/ Peers \/ Crash
    \/ \E t \in Thread : Requests(t) \/ Serve(t)
    \/ \E s \in Stream : Respond(s) \/ Send(s)

Spec == Init /\ [][Next]_vars

-----------------------------------------------------------------------------
(* Properties *)

TypeOK ==
    /\ rec \in [Object -> Records \cup {NoRecord}]
    /\ file \subseteq Content
    /\ th \in [Task -> [op : Ops, pc : Pcs, obj : Object \cup {NoRecord},
                          by : User \cup {NoRecord}, arg : User \cup {NoRecord},
                          fresh : BOOLEAN]]
    /\ \A t \in Task : ~ At(t, "idle") => th[t].obj \in Object
    /\ upload \in [Object -> [idx : Int, written : Seq(Nat), open : BOOLEAN]]
    /\ added \subseteq Object
    /\ spoilt \subseteq Content /\ stranded \subseteq Content
    /\ crashes \in 0..MaxCrashes

\* Every object on record has its content in the master directory, whatever the two
\* threads add and remove, and through crashes: the only exception is a content that
\* add copied while a remove that had counted no references was about to unlink it.
KeepsContent == \A o \in Object : OnRecord(o) => ContentOf[o] \in file \cup spoilt

\* A file in the master directory belongs to an object on record, to a request that is
\* adding or removing it, or it was left over by a crash between two steps of such a
\* request: removes that cross never both leave the file to the other.
NoOrphans ==
    \A c \in file :
        \/ RecordsOf(c) # {}
        \/ \E t \in Task : th[t].pc \in {"commit", "count", "unlink"} /\ Handles(t, c)
        \/ c \in stranded

\* An object uploaded in parts is handed to add only with a file that holds every part
\* once and in order, whatever parts are sent again, too late or after a failed write.
WholeUploads ==
    \A o \in added : upload[o].written # <<>> =>
        upload[o].written = [i \in 1..Parts[o] |-> i - 1]

Changes(t, o) == th[t].obj = o /\ th'[t] # th[t] /\ th[t].op \in OwnerOps
Delivers(t, o) ==
    t # "rest" /\ th[t].obj = o /\ At(t, "send") /\ ~ At(t, "send")' /\ crashes' = crashes

\* What a record says of owner and rights is changed only for who owns the object at that
\* moment, and a content is opened to be sent only when its object is on record and, if
\* restricted, for a user with access at that moment.  The one exception is a right that
\* another request took from that very user, or an object it removed, between the check
\* of the request and this step: the other thread may at any step, and for a download
\* the REST loop itself between the return of its handler and the iterator.
RightsHeld ==
    [][\A o \in Object :
          /\ OnRecord(o) /\ rec'[o] # rec[o] =>
                \E t \in Task : Changes(t, o) /\ (IsOwner(o, th[t].by) \/ ~ th[t].fresh)
          /\ \A t \in Task : Delivers(t, o) /\ th[t].fresh =>
                OnRecord(o) /\ HasAccess(o, th[t].by)]_vars
=============================================================================
