----------------------------- MODULE KeystoreFile -----------------------------
(***************************************************************************)
(* The keystore of an identity (core/keystore.py): a file that every       *)
(* command line session and the node of that identity load as a whole,     *)
(* change in memory and write as a whole, with a nonce one higher.  No     *)
(* lock is held in between.  The node database of a node keeps the record  *)
(* of the identity with the highest nonce it was sent.                     *)
(***************************************************************************)
EXTENDS Naturals

CONSTANTS
    Session,       \* processes: commands, and the node
    Profile,       \* sessions that change the profile, the others change a credential
    MaxCrashes,    \* bounds: processes that end in the middle of a write,
    MaxNonce       \*   writes

VARIABLES
    file,      \* the keystore file: its content, or what is wrong with it
    mem,       \* the content a session has in memory
    pc,        \* where a session is
    table,     \* identity_record at the node: the content it was made from
    wrote,     \* history: sessions whose changes were written to the file
    sent,      \* history: sessions that published what they had written
    overlap,   \* history: sessions that were alive at the same time
    back,      \* history: a content was written over one with a higher nonce
    crashes

vars == <<file, mem, pc, table, wrote, sent, overlap, back, crashes>>

\* the changes that went into a content, for assets and profile, and its nonce; that of
\* a file which is broken or removed is the highest that was in it
New == [status |-> "ok", nonce |-> 1, items |-> {}]
Broken == [file EXCEPT !.status = "broken"]

\* Keystore.new: what it wrote has a nonce of 1, and was published
Init ==
    /\ file = New
    /\ mem = [s \in Session |-> New]
    /\ pc = [s \in Session |-> "new"]
    /\ table = New
    /\ wrote = {} /\ sent = {} /\ overlap = {} /\ back = FALSE
    /\ crashes = 0

Alive(s) == pc[s] \notin {"new", "ended"}
Writing(s) == pc[s] = "write"
Goto(s, p) == pc' = [pc EXCEPT ![s] = p]

\* a file that was cut off is no JSON, one that is there has a valid signature
Readable == file.status = "ok"

\* the assets of the content are unlocked
Unlocked(s) == mem' = [mem EXCEPT ![s] = file]

Load(s) ==
    /\ pc[s] = "new" /\ Readable
    /\ Unlocked(s)
    /\ overlap' = overlap \cup {{s, t} : t \in {t \in Session : Alive(t)}}
    /\ Goto(s, "loaded")
    /\ UNCHANGED <<file, table, wrote, sent, back, crashes>>

\* a change is known by the session that made it, and is in memory first
Change(s) ==
    /\ pc[s] = "loaded"
    /\ mem' = [mem EXCEPT ![s].items = @ \cup {s}]
    /\ Goto(s, "sync")
    /\ UNCHANGED <<file, table, wrote, sent, overlap, back, crashes>>

ChangeProfile(s) == s \in Profile /\ Change(s)
AddCredential(s) == s \notin Profile /\ Change(s)
RemoveCredential(s) == s \notin Profile /\ Change(s)

\* Fault: the assets are taken as they were loaded
AsLoaded(s) == [mem[s] EXCEPT !.nonce = @ + 1, !.items = @ \ {s}]

Renewed(s) == [mem[s] EXCEPT !.nonce = @ + 1]

\* sync: nonce, assets and signature are renewed; the file is opened and cut off
SyncBegin(s) ==
    /\ pc[s] = "sync" /\ mem[s].nonce < MaxNonce
    /\ mem' = [mem EXCEPT ![s] = Renewed(s)]
    /\ file' = Broken
    /\ Goto(s, "write")
    /\ UNCHANGED <<table, wrote, sent, overlap, back, crashes>>

\* the content is written; two that write at once may leave a mixture of both
SyncEnd(s) ==
    /\ Writing(s)
    /\ \/ file' = mem[s]
       \/ /\ file.status = "ok" \/ \E t \in Session \ {s} : Writing(t)
          /\ file' = [Broken EXCEPT !.nonce = IF @ < mem[s].nonce THEN mem[s].nonce ELSE @]
    /\ wrote' = wrote \cup {s}
    /\ Goto(s, "saved")
    /\ back' = (back \/ mem[s].nonce < file.nonce)
    /\ UNCHANGED <<mem, table, sent, overlap, crashes>>

\* update_identity: an identity with a higher nonce replaces the record
Publish(s) ==
    /\ pc[s] \in {"loaded", "saved"}
    /\ table' = IF mem[s].nonce > table.nonce THEN mem[s] ELSE table
    /\ sent' = IF pc[s] = "saved" THEN sent \cup {s} ELSE sent
    /\ Goto(s, "ended")
    /\ UNCHANGED <<file, mem, wrote, overlap, back, crashes>>

\* cmd_dor.py ends this way after it put the key of an encrypted object into memory:
\* it never calls sync
End(s) ==
    /\ pc[s] \in {"loaded", "saved"}
    /\ Goto(s, "ended")
    /\ UNCHANGED <<file, mem, table, wrote, sent, overlap, back, crashes>>

\* a process ends, perhaps after it cut off the file
Crash(s) ==
    /\ Alive(s) /\ crashes < MaxCrashes
    /\ crashes' = crashes + 1
    /\ Goto(s, "ended")
    /\ UNCHANGED <<file, mem, table, wrote, sent, overlap, back>>

\* identity remove, by a session that loaded the keystore; others may write it again
Remove(s) ==
    /\ pc[s] = "loaded" /\ file.status # "removed"
    /\ file' = [file EXCEPT !.status = "removed"]
    /\ Goto(s, "ended")
    /\ UNCHANGED <<mem, table, wrote, sent, overlap, back, crashes>>

Next == \E s \in Session :
    Load(s) \/ ChangeProfile(s) \/ AddCredential(s) \/ RemoveCredential(s) \/ SyncBegin(s) \/ SyncEnd(s) \/ Publish(s) \/ End(s)
      \/ Crash(s) \/ Remove(s)

Spec == Init /\ [][Next]_vars

-----------------------------------------------------------------------------
Contents == [status : {"ok", "broken", "removed"}, nonce : 0..MaxNonce, items : SUBSET Session]

TypeOK ==
    /\ file \in Contents /\ table \in Contents /\ mem \in [Session -> Contents]
    /\ pc \in [Session -> {"new", "loaded", "sync", "write", "saved", "ended"}]
    /\ wrote \subseteq Session /\ sent \subseteq Session

Alone(s) == \A t \in Session : {s, t} \notin overlap

(* What a session changed and saved is lost only to one that was alive at the  *)
(* same time, and so is what it published: the file has the changes of all     *)
(* others, the record of the identity at the node has theirs if they changed   *)
(* the profile and published it, unless the nonce had gone back before.        *)
LostToOverlapOnly ==
    /\ file.status = "ok" => \A s \in wrote : s \in file.items \/ ~ Alone(s)
    /\ ~ back => \A s \in sent \cap Profile : s \in table.items \/ ~ Alone(s)

(* What it rests on: sessions alive together overlap; a session has its own    *)
(* change in memory, and those that sessions it does not overlap have written; *)
(* one that overlaps with nobody has the nonce of the file, which the record   *)
(* follows unless a nonce went back.                                           *)
AliveOverlap == \A s, t \in Session : s # t /\ Alive(s) /\ Alive(t) => {s, t} \in overlap
OwnChange ==
    \A s \in Session :
        /\ pc[s] \in {"sync", "write", "saved"} => s \in mem[s].items
        /\ s \in wrote => pc[s] \in {"saved", "ended"}
        /\ pc[s] = "saved" => s \in wrote
        /\ s \in sent => s \in wrote /\ pc[s] = "ended"
WrittenSeen ==
    \A s \in wrote : Alone(s) => \A t \in Session \ {s} : Alive(t) => s \in mem[t].items
NonceOfFile ==
    \A s \in Session : Alone(s) =>
        /\ pc[s] \in {"loaded", "sync"} => mem[s].nonce = file.nonce
        /\ pc[s] = "write" => mem[s].nonce = file.nonce + 1
NonceOfRecord ==
    ~ back =>
        /\ table.nonce <= file.nonce
        /\ \A s \in Session : pc[s] \in {"loaded", "saved"} => mem[s].nonce <= file.nonce
        /\ \A s \in Session : pc[s] = "saved" /\ Alone(s) => table.nonce < mem[s].nonce
KeystoreInv ==
    /\ TypeOK /\ back \in BOOLEAN /\ AliveOverlap /\ OwnChange /\ WrittenSeen
    /\ NonceOfFile /\ NonceOfRecord /\ LostToOverlapOnly
===============================================================================
