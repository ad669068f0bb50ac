--------------------------- MODULE SubmissionChecks ---------------------------
(***************************************************************************)
(* What the custodian checks of a batch before it reserves and starts      *)
(* anything (rti/base.py, check_submitted_tasks): the loops over its tasks *)
(* look up processors, the user and namespaces on the way, while the other *)
(* event loop may undeploy a processor or update the budget of a           *)
(* namespace.                                                              *)
(***************************************************************************)
EXTENDS Naturals, Sequences

CONSTANTS
    Batches,     \* sequences of tasks: [user, name, proc, namespace, given, budget, io]
    User, Known, \* users, and those whose identity the node has
    Proc, Namespace,
    None,        \* a name or a namespace that is not given; not in Namespace
    Budgets,     \* resources a namespace may be given: [vcpus, memory]
    MaxChanges   \* bound: changes made by the other loop

VARIABLES
    via,         \* "rest", with the identity of the request, or "call", by a namespace
    caller,
    batch,
    pc,          \* the check under way
    i,           \* tasks it has dealt with
    found,       \* tasks whose processor was found
    combined,    \* by namespace: what its tasks need, and the budget that was read
    deployed, budget,
    offered,     \* history: what was deployed, and the budgets, since the batch came
    changes

vars == <<via, caller, batch, pc, i, found, combined, deployed, budget, offered, changes>>

Indices == 1..Len(batch)
Exceeds(a, b) == a.vcpus > b.vcpus \/ a.memory > b.memory
Plus(a, b) == [vcpus |-> a.vcpus + b.vcpus, memory |-> a.memory + b.memory]
Nothing == [vcpus |-> 0, memory |-> 0]

Init ==
    /\ via \in {"rest", "call"} /\ caller \in User /\ batch \in Batches
    /\ pc = "caller" /\ i = 0 /\ found = {}
    /\ combined = [n \in {} |-> Nothing]
    /\ deployed = Proc
    /\ budget \in [Namespace -> Budgets]
    /\ offered = [procs |-> Proc, budgets |-> [n \in Namespace |-> {budget[n]}]]
    /\ changes = 0

-----------------------------------------------------------------------------
Rejected == pc' = "rejected" /\ UNCHANGED <<i, found, combined>>
Onto(check) == pc' = check /\ i' = 0 /\ UNCHANGED <<found, combined>>
Unchanged == UNCHANGED <<via, caller, batch, deployed, budget, offered, changes>>

\* rest_submit: only the user named by the tasks; a call by a namespace is not compared
CheckCaller ==
    /\ pc = "caller" /\ Unchanged
    /\ IF via = "rest" /\ \E k \in Indices : batch[k].user # caller
       THEN Rejected ELSE Onto("procs")

\* get_proc for one task after the other; what is not there is noticed later
FindProc ==
    /\ pc = "procs" /\ i < Len(batch) /\ Unchanged
    /\ i' = i + 1
    /\ found' = IF batch[i + 1].proc \in deployed THEN found \cup {i + 1} ELSE found
    /\ UNCHANGED <<pc, combined>>

NamesOk ==
    /\ Len(batch) > 1 => \A k \in Indices : batch[k].name # None
    /\ \A j, k \in Indices : j # k => batch[j].name # batch[k].name

\* names, processors, a single user, and whether the node knows the user
CheckTasks ==
    /\ pc = "procs" /\ i = Len(batch) /\ Unchanged
    /\ IF NamesOk /\ found = Indices /\ batch[1].user \in Known
          /\ \A k \in Indices : batch[k].user = batch[1].user
       THEN Onto("budgets") ELSE Rejected

\* the namespace is read for its first task, and kept
Entry(n) ==
    IF n \in DOMAIN combined THEN combined[n] ELSE [needs |-> Nothing, budget |-> budget[n]]

\* Fault: the needs of the tasks before are forgotten
LastOnly(entry, needs) == [entry EXCEPT !.needs = needs]

Add(entry, needs) == [entry EXCEPT !.needs = Plus(@, needs)]

\* a task in a namespace needs a budget that fits; the namespace may be unknown
AddTask ==
    LET task == batch[i + 1]  n == task.namespace IN
    /\ pc = "budgets" /\ i < Len(batch) /\ Unchanged
    /\ IF n = None THEN i' = i + 1 /\ UNCHANGED <<pc, found, combined>>
       ELSE IF ~ task.given \/ n \notin Namespace \/ Exceeds(task.budget, Entry(n).budget)
       THEN Rejected
       ELSE /\ combined' = [m \in (DOMAIN combined) \cup {n} |->
                              IF m = n THEN Add(Entry(n), task.budget) ELSE combined[m]]
            /\ i' = i + 1
            /\ UNCHANGED <<pc, found>>

\* the tasks of a namespace together, then inputs and outputs against the descriptors
CheckCombined ==
    /\ pc = "budgets" /\ i = Len(batch) /\ Unchanged
    /\ IF \E n \in DOMAIN combined : Exceeds(combined[n].needs, combined[n].budget)
       THEN Rejected ELSE Onto("io")

CheckInputsOutputs ==
    /\ pc = "io" /\ Unchanged
    /\ IF \A k \in Indices : batch[k].io THEN Onto("accepted") ELSE Rejected

-----------------------------------------------------------------------------
(* The other event loop *)

\* what comes after the checks is the business of the reservation
Checking == changes < MaxChanges /\ pc \notin {"accepted", "rejected"}

UpdateBudget(n, b) ==
    /\ Checking /\ budget[n] # b
    /\ budget' = [budget EXCEPT ![n] = b]
    /\ offered' = [offered EXCEPT !.budgets[n] = @ \cup {b}]
    /\ changes' = changes + 1
    /\ UNCHANGED <<via, caller, batch, pc, i, found, combined, deployed>>

\* the worker of an undeployment deletes the record, which get_proc finds until then
Undeploy(p) ==
    /\ Checking /\ p \in deployed
    /\ deployed' = deployed \ {p}
    /\ changes' = changes + 1
    /\ UNCHANGED <<via, caller, batch, pc, i, found, combined, budget, offered>>

Next ==
    \/ CheckCaller \/ FindProc \/ CheckTasks \/ AddTask \/ CheckCombined \/ CheckInputsOutputs
    \/ \E n \in Namespace, b \in Budgets : UpdateBudget(n, b)
    \/ \E p \in Proc : Undeploy(p)

Spec == Init /\ [][Next]_vars

-----------------------------------------------------------------------------
TypeOK ==
    /\ batch \in Batches /\ i \in 0..Len(batch) /\ found \subseteq Indices
    /\ pc \in {"caller", "procs", "budgets", "io", "accepted", "rejected"}
    /\ DOMAIN combined \subseteq Namespace

In(n) == {k \in Indices : batch[k].namespace = n}

\* what the first k tasks of a batch need in a namespace, and what all of them do
NeedsUpTo(tasks, n) ==
    LET total[k \in 0..Len(tasks)] ==
            IF k = 0 THEN Nothing
            ELSE IF tasks[k].namespace = n THEN Plus(total[k - 1], tasks[k].budget)
            ELSE total[k - 1]
    IN  total
Needs(n) == NeedsUpTo(batch, n)[Len(batch)]

\* what the docs of submit ask of a batch, with some budget each namespace had meanwhile
Acceptable(procs) ==
    /\ \E u \in Known : \A k \in Indices : batch[k].user = u
    /\ via = "rest" => batch[1].user = caller
    /\ \A k \in Indices : batch[k].proc \in procs /\ batch[k].io
    /\ Len(batch) > 1 => None \notin {batch[k].name : k \in Indices}
    /\ \A j, k \in Indices : batch[j].name = batch[k].name => j = k
    /\ \A k \in Indices : batch[k].namespace # None =>
         /\ batch[k].namespace \in Namespace
         /\ \A j \in In(batch[k].namespace) : batch[j].given
         /\ \E b \in offered.budgets[batch[k].namespace] : ~ Exceeds(Needs(batch[k].namespace), b)

(* A batch is accepted only if all of it is acceptable at once: what its     *)
(* tasks need together fits a budget their namespace had during the checks,  *)
(* and everything else is as it should be; and one that is acceptable is     *)
(* rejected only if something changed meanwhile.                             *)
AcceptedFits ==
    /\ pc = "accepted" => Acceptable(offered.procs)
    /\ pc = "rejected" /\ changes = 0 => ~ Acceptable(deployed)

-----------------------------------------------------------------------------
(* What makes AcceptedFits inductive: what each check has established *)

ChecksTypes ==
    /\ TypeOK /\ deployed \subseteq Proc /\ changes \in Nat
    /\ budget \in [Namespace -> Budgets]
    /\ offered = [procs |-> Proc, budgets |-> offered.budgets]
    /\ offered.budgets \in [Namespace -> SUBSET Budgets]

\* budgets are among those offered, and the only ones while nothing changed
Offered ==
    /\ \A n \in Namespace : budget[n] \in offered.budgets[n]
    /\ changes = 0 => deployed = Proc /\ \A n \in Namespace : offered.budgets[n] = {budget[n]}

CallerChecked ==
    pc \notin {"caller", "rejected"} /\ via = "rest" => \A k \in Indices : batch[k].user = caller

ProcsFound ==
    /\ pc = "caller" => i = 0 /\ found = {}
    /\ pc = "procs" => /\ found \subseteq {k \in 1..i : batch[k].proc \in Proc}
                       /\ changes = 0 => found = {k \in 1..i : batch[k].proc \in deployed}

TasksChecked ==
    pc \in {"budgets", "io", "accepted"} =>
        /\ NamesOk /\ batch[1].user \in Known
        /\ \A k \in Indices : batch[k].proc \in Proc /\ batch[k].user = batch[1].user

\* the tasks so far have their needs added up, by namespace
Added ==
    /\ pc \in {"caller", "procs"} => DOMAIN combined = {}
    /\ pc = "budgets" =>
         /\ \A n \in Namespace :
              IF n \in DOMAIN combined
              THEN /\ combined[n] = [needs |-> NeedsUpTo(batch, n)[i], budget |-> combined[n].budget]
                   /\ combined[n].budget \in offered.budgets[n]
                   /\ \E k \in 1..i : batch[k].namespace = n
              ELSE NeedsUpTo(batch, n)[i] = Nothing
         /\ \A k \in 1..i : batch[k].namespace # None =>
              batch[k].namespace \in DOMAIN combined /\ batch[k].given

BudgetsFit ==
    pc \in {"io", "accepted"} => \A k \in Indices : batch[k].namespace # None =>
        /\ batch[k].namespace \in Namespace /\ batch[k].given
        /\ \E b \in offered.budgets[batch[k].namespace] : ~ Exceeds(Needs(batch[k].namespace), b)

FilesFit == pc = "accepted" => \A k \in Indices : batch[k].io

RejectedRightly == pc = "rejected" /\ changes = 0 => ~ Acceptable(deployed)

ChecksInv ==
    /\ ChecksTypes /\ Offered /\ CallerChecked /\ ProcsFound /\ TasksChecked
    /\ Added /\ BudgetsFit /\ FilesFit /\ RejectedRightly
===============================================================================
