------------------------------ MODULE JobState ------------------------------
(***************************************************************************)
(* What a custodian promises about the states of the jobs submitted to it, *)
(* when nobody but their runners acts on them (simaas/rti/schemas.py,      *)
(* JobStatus.State, and the comments of simaas/rti/base.py on terminal     *)
(* states): the members of a batch appear together, an active job moves as *)
(* its runner says, an ended job stays as it ended, and a job is cancelled *)
(* only because another member of its batch failed, which then has to      *)
(* happen to every member that is still active.                            *)
(***************************************************************************)
CONSTANTS Job, Batch

VARIABLE state

Active   == {"uninitialised", "initialised", "running"}
Terminal == {"successful", "failed", "cancelled"}

Others(j) == (UNION {b \in Batch : j \in b}) \ {j}

Init == state = [j \in Job |-> "none"]

\* the batch gets its records
Submit(b) ==
    /\ \A j \in b : state[j] = "none"
    /\ state' = [j \in Job |-> IF j \in b THEN "uninitialised" ELSE state[j]]

\* the runner of j reports a state
Report(j) ==
    /\ state[j] \in Active
    /\ \E s \in {"initialised", "running", "successful", "failed"} :
          state' = [state EXCEPT ![j] = s]

\* j goes down with a failed member of its batch
Cascade(j) ==
    /\ state[j] \in Active
    /\ \E k \in Others(j) : state[k] = "failed"
    /\ state' = [state EXCEPT ![j] = "cancelled"]

Next ==
    \/ \E b \in Batch : Submit(b)
    \/ \E j \in Job : Report(j) \/ Cascade(j)

Spec == Init /\ [][Next]_state /\ \A j \in Job : WF_state(Cascade(j))
=============================================================================
