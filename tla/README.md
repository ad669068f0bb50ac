# A verification development for the Sim-aaS middleware

The repository is a middleware for simulation as a service: *nodes* form a
peer-to-peer network, store *data objects*, deploy *processors* as Docker
images, and run *jobs*, alone or in batches that simulate together. This
directory has TLA+ modules translated from its source (`src/simaas`), the TLC
configurations that check them on small instances, and TLAPS proofs of what
matters most, for every value of the constants.

* [How to run it](#how-to-run-it)
* [The system](#the-system): the parts, their state, how they interact
* [The modules](#the-modules): which models what, how they compose, what is left
* [Job life cycle](#job-life-cycle): `JobLifecycle`, `JobState`
* [Namespace reservations](#namespace-reservations): `NamespaceReservation`, `NamespaceLedger`
* [Data objects](#data-objects): `DataObjects`
* [Job runner](#job-runner): `JobRunner`
* [The services around the jobs](#the-services-around-the-jobs): `NodeNetwork`, `BatchBarrier`, `P2PTransport`, `ProcDeployment`, `AwsJobs`, `Gateway`, `KeystoreFile`, `SubmissionChecks`
* [The proofs](#the-proofs): what is proved, on what assumptions, and what is not
* [Seen while modelling](#seen-while-modelling): behaviour of the code worth a look
* [What is not modelled](#what-is-not-modelled)

`PROJECT.json` lists the same things for tools: components, runs, the mutants
that show each property can fail, the source lines of every definition,
findings, hazards and theorems.

## How to run it

    tlc -config BatchContested.cfg JobLifecycleMC        # a run: <name>.cfg with its MC module
    tlapm JobLifecycle_proofs.tla                        # the proofs of a module

Operators whose comment begins with *Fault* are not part of the model. Each is
a definition with a bug one could well make in the code it models (a dropped
guard, a missing reset); put in place of the definition that follows it, TLC
finds the property named in `PROJECT.json` violated.

## The system

### Threads, loops and what may interleave

A node is one process with two asyncio loops in threads of their own: the
*rest* loop serves users, the *p2p* loop serves other nodes and job runners.
The p2p service handles requests strictly one at a time and does not take the
next before the handler has returned (`p2p/service.py:171-234`); the rest
service runs one coroutine per request. Coroutines of one loop interleave only
at an `await` that suspends; the two loops interleave anywhere. Databases are
SQLite, with one session per call and no lock between a read and the commit
that follows. Requests between processes are ZeroMQ messages on a connection
of their own: a request that timed out at the sender (5 s) stays queued at the
receiver and is served later, and the receiver takes turns among connections,
so requests are served late, twice (a retry) and in another order than sent.

### The parts

| Part | State it keeps | Operations | Talks to |
|---|---|---|---|
| RTI, jobs (`rti/base.py`, `rti_docker`) | job records (status, runner), registries of workers, containers | submit, update_job (handshake), update_job_status, cancel, cleanup, purge | node database (reservations, identities), Docker, runners |
| RTI, processors (`rti/base.py`, `rti_docker`) | processor records with a state | deploy, undeploy, their workers | DORs of the network, Docker |
| Job runner (`cli/cmd_job_runner.py`) | local status, pending outputs, barrier, interrupt flag | handshake, barrier, push of status, fetch of inputs, push of outputs | custodian, batch members, DORs, worker process |
| Processor worker (`core/proc_worker.py`) | forked process and a pipe | run, relay, interrupt, stop | runner |
| Node database, namespaces (`nodedb`) | budget and reservations of each namespace, at every node | update budget, reserve, cancel, snapshots | the same part of every peer |
| Node database, network (`nodedb`) | known nodes and identities with nonces | join, leave, update, address conflicts | the same part of every peer |
| P2P transport (`p2p`) | service loop, pending attachments | request, respond, attachments | every part above |
| Data objects (`dor`, `dor_fs`) | objects, access lists, shared content files, provenance | add, delete, grant, revoke, fetch, search | node database, other DORs |
| Gateway (`gateway`) | users, keys | reverse proxy, key management | REST interface of a node |
| Keystore, identities (`core`) | key files, nonces, credentials | update, sign, encrypt | all |
| REST, CLI | none of their own | parse, sign, route, prompt | services |

### What is hard, and what makes each part correct

* *Jobs.* Users, runners, failing members of a batch and the error path of a
  submission all write the status of a job, from two loops, in workers that
  live in memory only. A job that ended must stay as it ended; a runner that
  works must keep its resources and its identity; all that a job holds must be
  given back in the end; the failure of a member must take its batch down.
* *Namespaces.* Every node has a record, and reserves at all others one by one,
  with timeouts that do not recall the request. A budget that fits one job must
  never be granted to two, no record may exceed its budget, and what is given
  back must be gone everywhere.
* *Barrier.* A batch starts when the last handshake is done, which only the
  runner that performed it knows: nobody may start before, and all should.
* *Outputs.* Each output is uploaded once, by a thread of its own, and the job
  ends as successful only with all of them.
* *Deployment.* A processor is deployed once, and not removed half way.
* *Network.* Nodes that join and leave while others exchange older snapshots:
  all should agree in the end, and one that left should not come back.
* *Data objects.* Objects with the same content share a file, which must be
  there as long as one of them is.
* *Worker.* Runner and worker talk over one pipe, both sending at will.

## The modules

| Module | Models | Proved |
|---|---|---|
| `JobLifecycle`, abstract `JobState` | the life of jobs at a custodian | all safety properties, and the steps of the refinement |
| `NamespaceReservation`, abstract `NamespaceLedger` | one namespace on all nodes | all invariants and the refinement |
| `DataObjects` | records, contents, uploads and rights of a repository | all |
| `JobRunner` | the threads of a runner, its status, outputs, inputs and worker process | all invariants |
| `BatchBarrier` | handshakes of a batch and the release of its barrier | all |
| `NodeNetwork` | join, leave, identities and snapshots | all |
| `P2PTransport` | requests with attachments, repeated, interleaved and cut off | all |
| `ProcDeployment` | deploy and undeploy under both RTIs, with restarts | all |
| `AwsJobs` | batches under AWS Batch, cancellation, job definitions | all |
| `Gateway` | accounts, keys and the check of a request | all |
| `KeystoreFile` | one keystore file, several sessions | all |
| `SubmissionChecks` | what is checked of a batch before its reservations | all |

How they fit together: `SubmissionChecks` ends where the reservations of
`NamespaceReservation` begin, and these are membership in `reserved` for
`JobLifecycle`. `JobLifecycle` abstracts the barrier to `PastBarrier`, which is
the past of `BatchBarrier`, and the runner to what it sends; `JobRunner` is
that runner with all its threads. `AwsJobs` replaces the container by a job of
AWS Batch, with the same handshake and records. `NamespaceReservation`
implements `NamespaceLedger` and `JobLifecycle` implements `JobState`, both
checked by TLC as properties and, but for the fairness of `JobState`, proved. What the protocols assume of a request (it may be
lost, late, or served after its sender gave up) is what `P2PTransport` shows of
the transport.

The parts that share no state (`NodeNetwork` to `SubmissionChecks` in the table,
with `BatchBarrier`) are instances in `Services`, which one run checks and one
module of theorems is about; the lemmas about `NodeNetwork`, `BatchBarrier` and
`P2PTransport` are in `*_proofs` modules of their own, which `Services` takes
with `INSTANCE`.

Left to do: a model of the event loops with the mutexes that are held across an
await.

## Job life cycle

`JobLifecycle` models what happens to the jobs of one custodian node between
submission and the day nothing is left of them: `rti/base.py`, the Docker RTI
(`plugins/builtins/rti_docker/service.py`), the handlers and senders of
`rti/protocol.py`, and the runner as far as the custodian sees it.

| Variables | In the code |
|---|---|
| `state`, `hasContainer`, `hasIdentity` | columns `status` and `runner` of a job record (`container_id` and `__ports` together, `identity` and `address` together) |
| `known`, `reserved` | the runner's identity in the node database; the job's reservation in its namespace |
| `cont`, `proc`, `sent` | the container, the runner process in it, the last status it gave to a push |
| `req`, `late` | the request a runner waits for; requests in the custodian's queue whose sender does not wait any more |
| `sub` | the coroutine of `submit`, one per batch |
| `hdl` | the request the p2p loop is handling |
| `cw`, `kw` | `perform_cancel` and `perform_job_cleanup` workers with what they have read |
| `purging` | the job whose purge holds the mutex |

*Grain.* A step is what runs between two points where another thread can
matter: the read of a record, the commit, the call of Docker, each await that
suspends. `Held(t)` says that a coroutine of loop `t` is between two steps with
no await, so nobody else of that loop moves. A handler that raises because the
record went away leaves its request unanswered, which to the runner is the
same as a lost one: it times out (`TimeOut`), sends again, and gives up after a
bounded number of attempts (`GiveUp`). Killing a container that does not run
raises, as Docker answers with an error; so does any call for one that was
removed.

*Taken as given.* `docker kill` stops a container. The reservations of a
submission are made in one step, since nothing reads them in between. Every
job runs in a namespace. A processor that ends without a word is a container
that dies. Users make no request while a purge is under way (the code would
block its loop). Bounds: `MaxLate`,
`MaxCrashes`, and a user who cancels waits until an earlier cancel is done.

### What is checked

| Run | Instance | Shows |
|---|---|---|
| BatchContested (1.5 M states) | two jobs in a batch; the submission may fail, a user may cancel, one restart | `TypeOK`, `WorkerIdentityKnown`, `WorkHoldsReservation`, `ReservationInv` |
| BatchMessages (1.4 M states) | two jobs; one late duplicate of any request, one container may die, one job may be purged | `TerminalIsFinal`, `NoIdentityAfterEnd`, `CleanupOnce` |
| BatchLive (30 k states) | two jobs, only runners act, under fairness | `JobStateSpec`, `CancelStops`, `EndLeavesNothing` |

Two jobs are one batch with a cascade in either direction; more members add
siblings that are treated alike. One late request is one duplicate of each
kind at a time. One restart takes away every worker at every step.

*Fairness* (`FairSpec`): a loop with a coroutine that is ready runs one of
them, as asyncio does; a runner starts with its handshake and exits when it has
to; a request ends, as attempts are bounded (strong fairness, as another
request may be handled in between). No fairness among the coroutines of a loop
is needed, since each takes finitely many steps. Users, processors and the
network owe nothing, so a job need not end by itself: the liveness properties
begin with a state that says it did.

*Refinement.* `JobState` says what the record of a job may do when nobody but
runners acts: members of a batch appear together, an active job moves as its
runner says, a terminal state stays, and a job is cancelled only since another
member failed, and then must be. BatchLive checks that `JobLifecycle`
implements it, liveness included.

### What the code does not do

`CancelOverwrites`: `rti/base.py:706` says "don't allow overwriting terminal
states". The state is read, then written, without a lock. The run shows a job
that was CANCELLED become INITIALISED: `update_job_status` read it as active
before the cancel worker committed the cancellation, then committed what the
runner had reported. `mark_job_cancelled` reads and writes the same way.

Further differences have no run. Identities that "would be registered but never
cleaned up" (`rti/base.py:210`) are, if the cancellation comes between the check
of the handshake and its registration. The runner's identity is not "always"
deleted (`rti_docker/service.py:291`): the kill of a container that stopped on
its own raises, and the deletion is skipped. The list of containers started for
a batch is never filled, so the loop that kills them "so there are no zombies"
(`rti_docker/service.py:243`) kills nothing. `mark_job_cancelled` says "the
cascade was already triggered by the original failure" (`rti/base.py:112`), but
a user's cancel of one member triggers none. A later task of a batch that is
refused its reservation leaves those of the earlier ones (`rti/base.py:511`), as
`Prepare` shows.

### What is proved

`JobLifecycle_proofs`, from `BatchAssumption` and `InputAssumption`:

* `TypeCorrect`: `Spec => []TypeOK`.
* `ReservationInvariant`: `Spec => []ReservationInv`.
* `ReservationCorrect`: `Spec => []WorkHoldsReservation`.
* `IdentityCorrect`: `Spec => []WorkerIdentityKnown`.
* `CleanupCorrect`: `Spec => CleanupOnce`.
* `TerminalCorrect`, `NoIdentityCorrect`: `Spec => TerminalIsFinal` and
  `Spec => NoIdentityAfterEnd`, if nobody cancels and no submission fails
  half-way, the cases in which the code does not keep them (see above).
* `StatesRefined`: `Spec => JS!Init /\ [][JS!Next]_state`, if moreover nobody
  purges. Every step of the life cycle is one of `JobState` or a stutter.

`WorkHoldsReservation` is not inductive. Why should a runner that works have
its reservation when four places give reservations back? The argument is that
each of them acts after the runner stopped. A runner works only after its
handshake, which is refused until its container is on record; a container is
recorded by a submission that still holds the reservations (`SubmissionOf`),
and the error path of that submission kills what is on record, with no way for
a container to be recorded after that, before it frees them. The handler of a
terminal status frees it when the runner said it ended, and it says so, in
requests however late, only once it stopped working (`EndIsTold`). A cancel
worker deals with started containers only (`WorkersInv`), a purge with
one that has no submission under way (`PurgeInv`), and a restart forgets the
submission but never the reservations. `ReservationInv` is the conjunction of
these parts; the proof has one step per action, and lemmas for the steps
that start nothing (`QuietStep`), that take or answer requests
(`HandlerStep`), and that concern one submission of several (`OthersKept`).

The others rest on `ReservationInv` and a few facts more. A clean-up worker
deletes the identity of a runner that has stopped (`IdentityInv`). A terminal
status registers one worker, in the same step that looks for one, and starts
that (`CleanupInv`). With neither cancels nor failed submissions all writes of
a state are made by coroutines of the p2p loop, which do not suspend between
read and commit: what was read is still there, or is the same end
(`StateInv`). A job is cancelled only by the cascade of a member that failed,
and that member stays failed (`CascadeInv`).

The fairness of `JobState`, `CancelStops` and `EndLeavesNothing` are
model-checked only: liveness under fairness is outside the prover's reach.

## Namespace reservations

`NamespaceReservation` models one namespace on all nodes of a network
(`nodedb/default.py`, `nodedb/protocol.py`). For a job its home node visits all
nodes, itself included, and asks each to reserve; a refusal or a timeout makes
it ask all to cancel. The reservation is given back when the submission fails
(rest loop) or the job ended (p2p loop, which serves nothing meanwhile). A node
that joins exchanges snapshots with every other, and each snapshot overwrites
the record; a budget update is broadcast.

| Variables | In the code |
|---|---|
| `budget`, `resv` | the namespace record of each node |
| `op` | the coroutine that reserves, cancels or releases for a job: which nodes are left, and which it waits for |
| `upd`, `jn` | the coroutines that broadcast a budget, and that join |
| `queue` | requests and answers under way, as a set: any may be served next |

A timed-out request stays in `queue`. Numbers of resources are what `Demand`
and `Budget` say; `Used` is a sum, written as the cardinality of a set of units
so that it can be reasoned about. Taken as given: every node knows the
namespace and all nodes; a job reserves once; each user updates the budget at
most once and each node joins again at most once (bounds `UpdateBy`, `JoinBy`).

### What is checked

| Run | Instance | Shows |
|---|---|---|
| LedgerRun (228 k states) | three nodes, two jobs of which either fits, timeouts and losses | `TypeOK`, `HeldEverywhere`, `LedgerSpec` |
| OneUpdate (6 k states) | three nodes, one update that lowers the budget while a job is reserved and released, timeouts | `BudgetsAgree` |
| BudgetJoin (1.7 M states) | two nodes that reserve and both join again, timeouts and losses | `NoOvercommit` |
| ReleaseRun (128 k states) | three nodes, both jobs fit, timeouts, under fairness | `ReleasedLeavesNothing`, `Decided` |
| ReserveLeaks | three nodes, timeouts | violates `RefusedLeavesNothing` |

Two jobs compete, three nodes let them do so in different orders and leave one
node that is home of neither. Two resources show that each is looked at.

*Fairness*: the coroutine of a reservation gets its turn and its timer runs
out. Nothing is assumed of the peers. `Decided` then says that the code never
waits for ever, even when the p2p loops of two nodes wait for each other.

*Refinement*: `NamespaceLedger` is what users are promised, one ledger that
grants and takes back. LedgerRun checks that the jobs whose reservation was
granted behave like it.

*ReserveLeaks*: `nodedb/default.py:357` says "if there was a problem at any
point of the reservation process, cancel all reservations". A request that
timed out may be served after its cancellation, as they come on different
connections, and the reservation stays for ever. Two broadcasts of budgets
that cross leave nodes with different ones, as they carry no version; with one
broadcast `BudgetsAgree` holds.

### What is proved

`NamespaceReservation_proofs`, from `NodeAssumption` and `ResourceAssumption`:

* `TypeCorrect`: `Spec => []TypeOK`.
* `NoOvercommitCorrect`: `Spec => []NoOvercommit` if no user changes the
  budget (`UpdateBy = {}`; a user may lower it below what is reserved).
* `HeldCorrect`: `Spec => []HeldEverywhere` if no node joins again (`JoinBy = {}`;
  a snapshot overwrites the record of a node that counted more since).
* `LedgerCorrect`: `Spec => LedgerSpec` if neither happens.
* `ReleasedCorrect`: `Spec => []ReleasedLeavesNothing` if no node joins and no
  request is lost (`~MayLose`); requests may be as late as they like.
* `BudgetsCorrect`: `Spec => []BudgetsAgree` if besides one user at most
  changes the budget.

Each of these conditions is that of the run that checks the property, and
without it the property is false.

The invariant of the first (`OvercommitInv`) says of every snapshot under way
what it says of every record, since it will overwrite one: a join that merged
records instead would break it. `UsedAdd`, `UsedMonotone` and `UnitsFinite` are
the facts about sums it needs, from the library's theorems on cardinalities.
`HeldInv` says that a job is on the records of the nodes its coroutine is
through with, which only a cancellation could change, and there is none until
the job is undone or released. With `OvercommitInv` it makes a grant one the
ledger allows: any two jobs that are held meet on every record, and each record
keeps to the budget. `ReleasedInv` says that a released job is on record only
where a cancellation is still under way to, since a reservation that was granted
leaves no request to reserve behind; a refused one does, which is
`ReserveLeaks`. `UpdateInv` says the same of a budget: a node that was visited
has it or will be told.

## Data objects

`DataObjects` models the repository of one node (`plugins/builtins/dor_fs`) as
its two event loops use it: the rest loop for users, the p2p loop for peers,
runners and namespace calls (`dor/protocol.py`, `namespace/protocol.py`).

| Variables | In the code |
|---|---|
| `rec` | rows of `obj_record`: owner and access list |
| `file` | files in the master directory, by content hash |
| `th` | the request a loop serves, or a response is for: operation, step, object, caller, argument |
| `upload` | `_parts`, multi-part uploads and what is in their file |
| `added`, `spoilt`, `stranded` | history, for the exceptions of the properties |

A step is a database session or a file operation. Within one loop nothing
suspends between the steps of a handler, so each thread runs one at a time. The
p2p loop also sends the answer before it takes the next request. The handler of
a REST download only returns a `StreamingResponse`, whose iterator opens the
file later (`dor_fs/service.py:574-580`): the request goes over to a task of its
own (`Respond`, one of `Stream`), the loop serves others, and the file is opened
at any time after (`Send`).
`add` holds `_db_mutex` from its look at the table to the commit (`Unlocked`);
removal deletes the record in one section, counts the references in another
and unlinks the file outside both. Rights are checked before the operation, in
a session of their own. A crash loses requests and uploads, not rows or files.

Objects (1.0 M states): two objects with the same content, one of them uploaded
in two parts, restricted, and with rights that change; two users; one download
under way beside the two loops; one crash. Two objects are what it takes to
share a file, and two loops are all there are. A download relies on nothing but
its own request, so a second one under way adds no case. It checks

* `KeepsContent`: an object on record has its content. Its one exception is
  what the model found: `add` copies a new file between the count and the
  unlink of a removal, which then takes the file away.
* `NoOrphans`: no file stays without a record but after a crash.
* `WholeUploads`: what is added has every part once and in order.
* `RightsHeld`: records change for who owns the object at that moment, and the
  file of an object is opened only while it is on record and for who has access.
  The exception (`fresh`) is a right another request took from that very user
  since the check, or an object it removed (`Takes`): the other loop may at any
  step, and for a download the REST loop itself before the iterator runs.

`DataObjects_proofs`, from `ObjectsAssumption`, proves for any objects, contents
and users that the types hold (`TypeCorrect`), that contents are kept
(`ContentKept`) and none is left over (`OrphansCorrect`), that uploads are whole
(`UploadsCorrect`) and rights held (`RightsCorrect`). `KeepsContent` is
not inductive: `ContentInv` adds that who is about to commit has the content
(`CommitHasContent`), and that who is about to unlink one is alone with it or it
was spoilt (`UnlinkAlone`). The mutex matters in one place: nobody counts
references while an upload is between its look and its commit. Most steps touch
neither records nor files (`QuietStep`); those that do have a lemma each.
`UploadInv` says that an upload's file has its parts from the first on, whoever
wrote them. `RightsInv` says that what the check of a request found still holds
unless another request took it away since (`Entitled`), and that a response
takes over the standing of its request (`RightsResponds`); it takes that an object
that is being added is known to nobody else (`AddsAlone`).

## Job runner

`JobRunner` models the program in a job's container (`cli/cmd_job_runner.py`)
and the worker it forks (`core/proc_worker.py`).

| Variables | In the code |
|---|---|
| `main`, `exit`, `asked`, `fetched` | where `execute` is, the exit code, the search for inputs |
| `status`, `dirty`, `handler`, `told`, `filed` | `StatusHandler`: the status, whether its timestamps differ, its loop, what the custodian and the file have |
| `pending`, `failed`, `uploading`, `uploads` | outputs and their `OutputObjectHandler` threads |
| `worker`, `toRunner`, `event` | the child process, the pipe, the interrupt event |
| `again`, `early` | history, for the exceptions of the properties |

Each thread is an action per step: main (`Main`), the status handler
(`StatusRun`), one handler per output (`Handler`), the interrupt that arrives
on the P2P loop, the worker. Any stage of main may raise (`Fail`), which first
sets the state and adds the error in a second statement. Timestamps are in
milliseconds, so an update may not count as a change (`Update`).

Runner (157 k states): outputs `a` (required) and `b`, one input that only the
second peer has, a member of a batch, two messages of the processor besides its
last, one status push that fails for good. It checks `SuccessIsComplete`,
`FinalStatusIsLast` (with the exit code), `UploadedOnce` and, under fairness,
`InterruptedEnds`. Fairness (`Fairness`): every thread goes on and the processor
ends; the release of the barrier is left out of it, as it may never come. Two
messages are an output announced twice, one before a call of the namespace, or
two outputs at once.

`JobRunner_proofs`, from `RunnerAssumption` (kinds of messages are different
from outputs, peers are a sequence and have inputs), proves for any outputs,
inputs, peers and numbers of messages that the types hold (`TypeCorrect`; the
pipe never holds more than was counted), what SUCCESSFUL means
(`SuccessCorrect`), that the last status is the one the job ended with
(`FinalStatusCorrect`) and that outputs are uploaded once
(`UploadedOnceCorrect`). `RunnerInv` ties the threads together: the state is
final exactly when `execute` comes to its end and agrees with the exit code
(`StateFollowsMain`); the status handler writes a last time only after that
(`LastIsFinal`); an output that was announced once has one handler while it is
pending and none before and after (`OneHandler`), so that an empty `pending`
means that all is uploaded or has failed. `InterruptedEnds` needs fairness and
stays with TLC.

## The services around the jobs

Eight modules share no state with each other. `Services` puts them together:
`part` says which one a behaviour belongs to, and `v1`, `v2`, ... hold its
variables in the order of its module. A step is a step of one part
(`NetworkStep`, `BarrierStep`, ...); every invariant names its part. One run,
Services (2.1 M states), checks each part on its own instance, which
`ServicesMC` and Services.cfg give.

`Services_proofs` proves all of its invariants, for any values of the constants. `OnePart` says that a behaviour stays with its
part, so that each theorem needs the invariant of one part only, and
`TypesCorrect` needs all of them (`PartsInv`). The assumptions are that nodes
are finitely many, that sizes and bounds are numbers (`NetworkAssumption`,
`ServicesAssumption`), and that a batch has a task and resources are numbers
(`ChecksAssumption`; an empty batch ends in an `IndexError` before anything is
decided).

### NodeNetwork

Tables of nodes (`net`) and identities (`ids`) at every node
(`nodedb/default.py`), the protocols of `nodedb/protocol.py`, and the operations
of `node/base.py` that begin them. A join (`join`) runs on the thread that
called it and exchanges snapshots with one peer after the other: nodes are read
first (`JoinPick`), identities afterwards (`JoinSend`). Requests (`msgs`) may
be served in any order, after a time-out, or never. A node that is restarted
has a later `last_seen`, perhaps another address. One address stands for the
P2P and the REST address, which change together; two nodes that share only one
of the two (the code calls that a conflict as well, `nodedb/default.py:121-126`)
are not modelled.

Instance: three nodes of which one may come back at the address of another,
three starts, two joins, one leave, stop, new profile or time-out. Two joins
cross each other and meet at the third node.

* `NetworkReadable`: a node on record has its identity there too; otherwise
  `get_network` raises, and everything that begins with it.
* `OwnRecordStays`: no peer's record removes the one a node has of itself.
* `JoinedKnowEachOther`: nodes that join at the same time know each other in
  the end, as long as nothing failed, only nodes that knew nobody joined, and
  none through a node that was joining.

All three are proved (`ReadableCorrect`, `OwnRecordCorrect`, `JoinedCorrect`,
with the lemmas of `NodeNetwork_proofs`). What could go wrong with the record of a running node
is that somebody says something later about it, or about its address.
`NetworkInv` says that nobody can: all that is on record or under way is in
`Past`, the information no later than the record of the node it is about or of
the node that now runs at its address; a start is later than all of it. What
could go wrong with identities is that a snapshot has a node without one, as
they are read one after the other: an identity once on record stays, so the
second read has at least what the first saw (`MessagesSound`, `JoinsSound`; the
lemmas `NoncesGrow`, `IdsGrow`). A snapshot is put on record node by node in any
order, so its effect is computed by recursion along a list; `UpdateMany` is the
induction, made with the least index at which something fails, as the
library's induction theorems cannot be applied here (`Upward`).

`JoinedCorrect` is about any number of nodes that join at the same time. While
all joins are simple, a node that joins through another can be given the root of
that one (`Rooted`): the root never joins, as a node others joined through does
not. `JoinedInv` says that roots can be chosen such that (`Agreement`)

* whatever is on record, under way or still to be contacted is true, and is about
  nodes of one root (`TableOf`, `MessageOf`, `JoinOf`), so that no update finds a
  conflicting address and takes a record away (`UpdateApart`);
* a join that has not been at its root is going to contact the root, or somebody
  who knows it (`RootAhead`): the boot node does, or is the root;
* of two nodes that were at the root, or do not join, each knows the other, or one
  is going to contact the other (`PairsAgree`). The root handles one request after
  the other, and its reply to the second has the first.

At the end nobody is ahead of anybody, so a node knows all that have its root
(`JoinedAgree`). A join that is handled disturbs all of these parts at once, as
does a join that starts, which changes a root; the other steps leave alone who is
ahead and who was met (`MovesOn`). The invariant needs that the peer is idle when
a join starts: otherwise the peer need not know the root yet, and the node may
end without it.

### BatchBarrier

`pc` is where a member's runner is, `registered` and `seen` who is on record and
in the status a runner was given, `todo` and `releases` the releases to be sent
and received. `update_job` registers the runner and then reads the status of the
batch, so the last one to be served finds all ports and releases everybody,
itself included; several may if answers get lost. Three members, two attempts,
two lost or late messages, one cancelled member.

* `BarrierHolds`: who is past the barrier knows all ports.
* `WaitsForSomebody`: who waits is released or will be, or waits for a member
  that is not through its handshake. Exceptions are a cancelled member and a
  release that got lost, as it is sent once.

Both are proved for any batch and any bounds (`BarrierCorrect`, `WaitsCorrect`). `BarrierInv` says that a
status names only members that have registered (`StatusesTrue`), that whoever is
through with the handshake has (`DoneRegistered`), and that a runner that
releases knows all and has not forgotten itself (`ReleaserKnows`). The first
makes the check behind the barrier sufficient. The second makes the last
handshake complete: a status that is not names a member that is not through.
One lemma per group of steps.

### P2PTransport

Both ends of `p2p_request` (`p2p/base.py`) and the loop of the service
(`p2p/service.py`): frames (`socket`, `answer`) are a header or the number of a
chunk, `pending` is the table of transfers by request id, `busy` the one request
handled at a time. A client gives up after a time-out, closes its socket and may
try again with a new id. Ids of 32 random bits are taken to be different. Three
clients: one that fetches, one that pushes two chunks, one of a protocol the
service does not have; two attempts, one restart of the service.
`TransfersKeptApart`: a handler is given the chunks of its own request, whole
and in order, and what stays pending was given up by its client.

`TransfersCorrect` proves it for any clients, sizes and bounds. `TransportInv`
follows the stream of each request: the frames on a socket are numbered without
a gap (`Consecutive`), what was collected is the beginning and the socket goes
on from there (`Collected`), up to what the client sent last (`UpToDate`);
nothing is known of an attempt yet to come (`FutureUnknown`), and a request
whose header was taken has no second one (`NoSecondHeader`). The cut of a socket
when an attempt fails, and the restart of the service, leave a beginning of the
stream, and the frames after a restart begin with a chunk that belongs to
nothing.

### ProcDeployment

The records of processors (`record`, `listed`), the requests and workers
(`work`), the images in the local Docker and in the registry (`local`, `ecr`),
under either RTI (`rti`). Deployment checks, awaits, writes a placeholder and
starts a worker, so that two may cross. An AWS worker that finds an image of
another platform checks it (`Platform`) and deletes it (`DeleteForeign`) in two
steps; another may have replaced it in between. Two processors that share an image (one
from a file for another platform, the other built), three requests, one restart.

* `RecordsFollowWork`: a busy record is being worked on, up to a restart.
* `ReadyRunnable`: what is ready has its image where jobs are started from,
  unless an undeployment deleted the image it shares.

Both are proved for any processors, images and requests (`RecordsCorrect`,
`ReadyCorrect`). `DeploymentInv` adds that what a worker is about to declare
ready has been pushed, or was deleted since (`PushedBeforeReady`), and that only
the AWS RTI pushes and deletes (`OnlyAwsMoves`).

### AwsJobs

A batch under AWS Batch: `sub` is the submission, `recorded` the jobs with an id
on record, `aws` the job at AWS with the runner in it, `shake` the handshakes
between check and registration, `cancel` the workers of `perform_cancel`,
`volumes` and `jobdef` the processor and its job definition. Two jobs, two
deployments. `EndedNotWorking`: no runner works for a job that ended unless one
is about to terminate it; jobs without an id, or that AWS failed to terminate,
are left out, as the code leaves them to themselves. `AwsCorrect` proves it for
any batch. `AwsInv` says who stops a job that is over: a handshake that has been
checked but not registered is of a runner that does not work yet
(`ShakesWhenStarted`), which goes away if the job is over by then
(`OverNotWorking`), and the error path of a submission has been through all it
had submitted when it commits (`PurgedGone`).

### Gateway

Accounts and API keys (`account`, `keys` by row), commands of administrators
that look, ask and then act (`command`), and a request that is checked by two
queries, passed to the node and answered (`request`). Row ids are the largest
plus one, so they are used again. Two users, one request, two sessions, five
commands, two keys: enough to remove, replace and disable between any two steps
of the request. `ActsForKeyHolder`: the node acts only for the user whose key
was presented, who was enabled at some time meanwhile, and on what is theirs.
`GatewayCorrect` proves it for any users, keys, requests and administrators.
Rows are used again, so the row a request found first may belong to another user
at the second query, which asks for the user the first one found; `GatewayInv`
says that this is the holder of the key (`Passed`), and that whoever is enabled
while the request is checked has had the chance that `chance` records.

### KeystoreFile

A keystore file that several sessions load, change and write as a whole (`file`,
`mem`, `pc`), and the record of the identity at a node (`table`), which takes a
higher nonce only. A write cuts the file off first. Three sessions, nonces up to
five, one crash. `LostToOverlapOnly`: a saved change is lost only to a session
that was alive at the same time, and a published profile only then or after the
nonce had gone back. `KeystoreCorrect` proves it for any sessions and crashes.
`KeystoreInv` says that a session that overlaps with nobody has the nonce of the
file (`NonceOfFile`), and that the record at the node is not ahead of the file
while no nonce went back (`NonceOfRecord`): so the publication of such a session
is newer than the record, and is taken.

### SubmissionChecks

`check_submitted_tasks` (`rti/base.py`) with the loops it consists of: `i`
counts the tasks dealt with, `found` has those whose processor was found,
`combined` what the tasks of a namespace need and the budget that was read for
the first of them. The other event loop may undeploy a processor or update a
budget in between. All batches of up to three out of eight tasks: with and
without a name, a namespace, a budget, a known user, an existing processor or
namespace; two resources, one change. Three tasks are needed for two of one
namespace with another in between. `AcceptedFits`: an accepted batch fits as a
whole what its namespaces had at some time during the checks, and all the rest
is as submit asks; a batch that is acceptable is rejected only if something
changed. A batch whose budget was lowered meanwhile is accepted, and the
reservation decides.

`ChecksCorrect` proves it for batches of any size. `ChecksInv` says what each
check has established for those that follow, and that the needs of the tasks so
far have been added up by namespace (`Added`). `NeedsUpTo` is a recursive
function; that it exists (`TotalsExist`), what it is for one task more
(`NeedsAdd`) and that a namespace needs at least what each of its tasks does
(`NeedsAtLeast`, so that the refusal of one task is right for the batch) are
lemmas, by the least number of tasks for which they fail.

## The proofs

Each `*_proofs` module extends (or, for `Services`, instantiates) the module it
is about; `tlapm` checks every leaf. The shape is the same everywhere: an
invariant made of named parts, each a reason; a lemma for the initial states;
lemmas for steps or groups of steps that disturb the same parts; the theorem, by
`PTL`. Each invariant was checked by TLC on the instance of a run before it was
proved.

Assumptions on constants are `ASSUME`s of the modules, which TLC evaluates on
every run. Conditions of single theorems (`CancelBy = {}`, `JoinBy = {}`, ...)
are those of the run that checks the same property, and name the behaviour of
the code that breaks it: a run that violates it, or a passage above, shows that.

Not proved, and checked by TLC only:

* liveness, which needs fairness and `ENABLED`: `CancelStops`,
  `EndLeavesNothing`, the fairness of `JobStateSpec`, `Decided` and
  `InterruptedEnds`;
* the properties of the two runs that are violated.

## Seen while modelling

Behaviour the models have because the code does, and that no property forbids:

* *Transport.* A download is appended to its file, so a repeated one follows the
  rest of the first, and nobody compares hashes (`cli/cmd_job_runner.py`). A
  handler that raises gives no reply and the client waits for its time-out. A
  namespace call may be carried out several times. Transfers cut half way stay
  in `_pending` for ever.
* *Network.* The removal of a node by address is given a string and removes
  nothing. A more recent record with the same address is "ignored", but the
  node is added. A node that left comes back with an older snapshot. A node that
  joins through one that is itself joining may stay unaware of others.
* *Deployment.* A failed deployment writes null ports, and `get_proc` raises for
  that record from then on. A restart leaves the record busy for ever. Under AWS
  the undeployment of one processor deletes the image another one shares, and
  the worker of a second deployment writes the record again after its removal.
* *AWS jobs.* `perform_purge` raises for a job without an id; the list of
  submitted jobs is never filled, as under Docker; a cancelled job without an id
  goes on; a job that is RUNNABLE is not terminated; a submission under way
  during an undeployment registers a job definition the next deployment uses.
* *Submission.* A batch in a namespace the node does not know, and an empty one,
  end in an `AttributeError` or `IndexError`, not in a validation error. Only
  `rest_submit` compares the caller with the user of a task. A processor that is
  busy or failed counts as deployed.
* *Runner.* The final FAILED status may lack its error. An output announced
  again while pending is uploaded twice.
* *Data objects.* A download by REST opens its file after the handler has
  answered: a revoke served by the same loop in between does not stop it, a
  removal does only when the file goes with it. A file left by a crash is read-only: later uploads of that
  content are refused unless the process is root. Two uploads in parts of the
  same path share their file.
* *Gateway.* Row ids of keys are used again, so a deletion that was confirmed
  late removes another key. The keys of a deleted user stay. An account whose
  publication failed is unknown to the node until `publish`. What a node refuses
  is reported as a 500.
* *Keystore.* Sessions overwrite each other's changes; the nonce may go back and
  later publications are ignored; a crash while writing leaves broken JSON,
  which is not caught; a removed keystore is written again by a session that
  had loaded it. `cmd_dor.py` says that it added the key of an encrypted object
  to the keystore but never writes it.

## What is not modelled

`PROJECT.json` lists every component with its reason.

* Interactive front ends (`cli`), REST plumbing, logging, schemas and plugin
  discovery keep no state a property could be about; the commands that do are in
  `Gateway` and `KeystoreFile`.
* The proxies of namespaces for processors ask and pass on; what they repeat is
  in `P2PTransport`, the search of the peers for inputs in `JobRunner`.
* The AWS RTI is modelled without its SSH tunnels, the Docker RTI without the
  choice of ports, repositories without provenance, searches and statistics,
  keystores without cryptography.
* Mutexes held across an await (`node/base.py`, `rti/base.py:901`), which can
  block a loop for good, need a model of the loops themselves.
* Liveness is stated where the code's scheduling justifies fairness: for jobs,
  reservations and the runner. The other parts depend on peers, users or AWS
  for every step, and are checked for safety only.
* Handlers that only read, and what a failed disk or database does, are left out
  everywhere but where a property is about them.
