---------------------------- MODULE BatchBarrier ----------------------------
(***************************************************************************)
(* How the runners of a batch start together (rti/protocol.py, cli/        *)
(* cmd_job_runner.py): each performs the handshake with the custodian and  *)
(* gets the status of the batch as far as it is known by then.  The one    *)
(* that finds the ports of every member in it releases the barrier, once   *)
(* for each member; the others wait until they are released, or their job  *)
(* is interrupted.                                                         *)
(***************************************************************************)
EXTENDS Naturals, FiniteSets

CONSTANTS
    Member,        \* the jobs of a batch
    MaxAttempts,   \* of a handshake
    MaxLost,       \* bounds: requests or answers that get lost or come late,
    MaxCancelled   \*   and cancelled members

VARIABLES
    pc,            \* where the runner of a member is
    attempt,       \* handshakes it has tried
    seen,          \* members with ports and identity in the status a runner has
    registered,    \* members with ports and identity on the custodian's record
    late,          \* handshakes whose runner no longer waits for the answer
    todo,          \* members a runner still has to release
    releases,      \* _releases: the status a runner was released with, if any
    ended,         \* cancelled members
    interrupted,
    lost,
    missed         \* history: releases that did not reach their member

vars == <<pc, attempt, seen, registered, late, todo, releases, ended, interrupted,
          lost, missed>>

Pcs == {"handshake", "sent", "release", "wait", "past", "stopped", "failed"}

Init ==
    /\ pc = [m \in Member |-> "handshake"]
    /\ attempt = [m \in Member |-> 0]
    /\ seen = [m \in Member |-> {}]
    /\ registered = {} /\ late = {}
    /\ todo = [m \in Member |-> {}]
    /\ releases = [m \in Member |-> {}]
    /\ ended = {} /\ interrupted = {}
    /\ lost = 0 /\ missed = {}

-----------------------------------------------------------------------------
(* The handshake *)

SendHandshake(m) ==
    /\ pc[m] = "handshake" /\ attempt[m] < MaxAttempts
    /\ pc' = [pc EXCEPT ![m] = "sent"]
    /\ attempt' = [attempt EXCEPT ![m] = @ + 1]
    /\ UNCHANGED <<seen, registered, late, todo, releases, ended, interrupted, lost, missed>>

\* Fault: the ports of a member are on record from its submission on
KnownFromSubmission(m) == Member

\* update_job registers the runner, then the status of the batch is read
BatchStatus(m) == registered \cup {m}

MappingsComplete(m, status) == status = Member

\* the runner that has all mappings releases, the others wait
AfterHandshake(m, status) ==
    /\ seen' = [seen EXCEPT ![m] = status]
    /\ pc' = [pc EXCEPT ![m] = IF MappingsComplete(m, status) THEN "release" ELSE "wait"]
    /\ todo' = [todo EXCEPT ![m] = IF MappingsComplete(m, status) THEN Member ELSE {}]

\* the handler answers, and the answer arrives
Handshake(m) ==
    /\ pc[m] = "sent" /\ m \notin ended
    /\ registered' = registered \cup {m}
    /\ AfterHandshake(m, BatchStatus(m))
    /\ UNCHANGED <<attempt, late, releases, ended, interrupted, lost, missed>>

\* the job has ended: the answer has no job and the runner exits
Rejected(m) ==
    /\ pc[m] = "sent" /\ m \in ended
    /\ pc' = [pc EXCEPT ![m] = "failed"]
    /\ UNCHANGED <<attempt, seen, registered, late, todo, releases, ended, interrupted,
                   lost, missed>>

\* request or answer lost, or an answer too late: the runner tries again
HandshakeFails(m) ==
    /\ pc[m] = "sent" /\ lost < MaxLost
    /\ \/ registered' = registered \cup ({m} \ ended) /\ UNCHANGED late
       \/ late' = late \cup {m} /\ UNCHANGED registered
       \/ UNCHANGED <<registered, late>>
    /\ lost' = lost + 1
    /\ pc' = [pc EXCEPT ![m] = IF attempt[m] < MaxAttempts THEN "handshake" ELSE "failed"]
    /\ UNCHANGED <<attempt, seen, todo, releases, ended, interrupted, missed>>

\* a handshake served after its runner stopped waiting for the answer
LateHandshake(m) ==
    /\ m \in late
    /\ late' = late \ {m}
    /\ registered' = registered \cup ({m} \ ended)
    /\ UNCHANGED <<pc, attempt, seen, todo, releases, ended, interrupted, lost, missed>>

-----------------------------------------------------------------------------
(* The barrier *)

\* Fault: the runner that releases the barrier leaves itself out
OthersOnly(m) == todo[m] = {m}

Released(m) == todo[m] = {}

\* one request for each member, whoever it is and whatever became of it: a failure is logged.
\* A runner whose process has ended does not answer
Release(m, k) ==
    /\ pc[m] = "release" /\ ~ Released(m) /\ k \in todo[m]
    /\ todo' = [todo EXCEPT ![m] = @ \ {k}]
    /\ \/ /\ pc[k] # "failed"
          /\ releases' = [releases EXCEPT ![k] = seen[m]]
          /\ UNCHANGED <<lost, missed>>
       \/ /\ pc[k] = "failed" \/ lost < MaxLost
          /\ lost' = IF pc[k] = "failed" THEN lost ELSE lost + 1
          /\ missed' = missed \cup {k}
          /\ UNCHANGED releases
    /\ UNCHANGED <<pc, attempt, seen, registered, late, ended, interrupted>>

\* everybody was told: wait for the own release
AllReleased(m) ==
    /\ pc[m] = "release" /\ Released(m)
    /\ pc' = [pc EXCEPT ![m] = "wait"]
    /\ UNCHANGED <<attempt, seen, registered, late, todo, releases, ended, interrupted,
                   lost, missed>>

\* wait_for_release, and the check that the status it was released with is complete
Pass(m) ==
    /\ pc[m] = "wait" /\ releases[m] # {}
    /\ seen' = [seen EXCEPT ![m] = releases[m]]
    /\ releases' = [releases EXCEPT ![m] = {}]
    /\ pc' = [pc EXCEPT ![m] = IF MappingsComplete(m, releases[m]) THEN "past" ELSE "failed"]
    /\ UNCHANGED <<attempt, registered, late, todo, ended, interrupted, lost, missed>>

\* interrupted before it was released: the job goes on to its end without the others
Stop(m) ==
    /\ pc[m] = "wait" /\ releases[m] = {} /\ m \in interrupted
    /\ pc' = [pc EXCEPT ![m] = "stopped"]
    /\ UNCHANGED <<attempt, seen, registered, late, todo, releases, ended, interrupted,
                   lost, missed>>

\* a member is cancelled, and its runner is interrupted if its address is known
Cancel(m) ==
    /\ m \notin ended /\ Cardinality(ended) < MaxCancelled
    /\ ended' = ended \cup {m}
    /\ interrupted' = interrupted \cup ({m} \cap registered)
    /\ UNCHANGED <<pc, attempt, seen, registered, late, todo, releases, lost, missed>>

Next == \E m \in Member :
    \/ SendHandshake(m) \/ Handshake(m) \/ Rejected(m) \/ HandshakeFails(m)
    \/ LateHandshake(m)
    \/ \E k \in Member : Release(m, k)
    \/ AllReleased(m) \/ Pass(m) \/ Stop(m) \/ Cancel(m)

Spec == Init /\ [][Next]_vars

-----------------------------------------------------------------------------
TypeOK ==
    /\ pc \in [Member -> Pcs] /\ attempt \in [Member -> 0..MaxAttempts]
    /\ seen \in [Member -> SUBSET Member] /\ registered \subseteq Member
    /\ todo \in [Member -> SUBSET Member] /\ releases \in [Member -> SUBSET Member]
    /\ missed \subseteq Member

(* A runner past the barrier knows the ports and the identity of every       *)
(* member, and every member has registered with the custodian, in whatever   *)
(* order the handshakes were served, repeated or released (what the comment  *)
(* of _await_batch claims and the processors of a batch build on).           *)
BarrierHolds ==
    \A m \in Member : pc[m] = "past" => seen[m] = Member /\ registered = Member

(* A runner that waits is going to be released: one that is to release it is *)
(* under way, or a member has yet to finish its handshake.  It waits in vain *)
(* only for a member that was cancelled or gave up, or for a release that    *)
(* was lost: those are sent once (BatchBarrier.perform).                     *)
WaitsForSomebody ==
    \A m \in Member : pc[m] = "wait" =>
        \/ releases[m] # {} \/ m \in missed
        \/ \E k \in Member : pc[k] = "release" /\ m \in todo[k]
        \/ \E k \in Member : pc[k] \in {"handshake", "sent", "failed"} \/ k \in ended
=============================================================================
