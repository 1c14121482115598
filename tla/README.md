# A verification project for dask-operator

TLA+ models of the operator, TLC runs that check them on small instances, and
TLAPS proofs of what matters most for every instance. The models are written
from the Go code; paths below are relative to the repository.

## The system

`dask-operator` is a Kubernetes operator. A user creates a `Dask` (a cluster:
scheduler, workers, perhaps a notebook) or a `DaskJob` (a script to run on one),
and the operator creates the Kubernetes objects for it.

| Component | Source | State it keeps | Operations |
|---|---|---|---|
| Dask reconciler | `controllers/dask_controller.go` | none between passes; within one, a snapshot | `Reconcile`, `SetupWithManager` |
| DaskJob reconciler | `controllers/daskjob_controller.go` | the same | `Reconcile`, `SetupWithManager` |
| Lookup and status helpers | `controllers/utils.go` | none | `getDeployment`, `getIngress`, `getConfig`, `getJob`, `getPVC`, `resourceDetails` and the status readers under it |
| Context | `types/types.go` | one `DaskContext` per pass, written by `For...` | `SetConfig`, `SetJobConfig`, `ForNotebook`, `ForScheduler`, `ForWorker` |
| Manifest builders | `models/*.go` | none | one function per object: a template, rendered and parsed |
| Templates, script check | `utils/utils.go` | none | `ApplyTemplate`, `CheckJobScript` |
| API types | `api/v1/*_types.go` | the resources | - |
| Admission webhooks | `api/v1/*_webhook.go` | none | `Default`, `ValidateCreate`, `ValidateUpdate`, `ValidateDelete` |
| Manager | `main.go` | the process | start |
| controller-runtime, Kubernetes (external) | - | API objects, informer caches, the work queues | watch events, retries, resync, garbage collection |

**How they interact.** `main.go` starts a manager with two controllers. Each has
a work queue without duplicates and one goroutine that takes a name from it and
calls `Reconcile`. Reads go to the informer cache, which lags; writes go to the
API server. An event about a Dask, or about an object of a watched kind that a
Dask controls, queues the Dask; an error from `Reconcile` queues the name again.
The Dask reconciler looks up five objects (ConfigMap, Ingress, three
Deployments) and creates in a fixed order whatever group of objects has a
missing last member: configuration, notebook, scheduler, workers, ingress. Where
the workers are there it updates their replica count if it differs, in the place
of creating them and so before the ingress. The status comes last. The
DaskJob reconciler waits for the status of its Dask to say `Running` and creates
a ConfigMap, a PVC, a ServiceAccount and a Job. The two share the Dask's status
and nothing else.

**What makes it hard.** No lock and no transaction: between any two API calls of
a pass users edit, the garbage collector deletes, watch events arrive late,
calls fail or take effect with their answer lost, the process dies. A pass acts
on what it read at the start. Correctness depends on somebody queueing the name
again whenever a pass has acted on something old.

**What makes each component correct.**

- *Dask reconciler*: objects come up in an order their pods can live with; a
  status is not published for nothing; no wake-up is lost; the cluster last
  asked for is eventually there; nothing of a deleted Dask remains; objects of
  others are left alone.
- *DaskJob reconciler*: a Job is created once, and for a Dask that runs; a
  finished job's status stays; a job waits for its Dask without giving up.
- *Context, builders*: what is set for one kind of pod reaches only that kind;
  the policies of a cluster let its pods talk as their comments say.
- *Two controllers, two managers*: neither acts on a promise the other does not
  keep, and two of one kind do not undo or block each other.

## Modules

| Module | Content |
|---|---|
| `DaskController` | the Dask reconciler, its cache and queue, the API objects, users, garbage collector, faults; all properties |
| `ClusterBringup` | what the Dask controller promises about a cluster coming up: the abstract specification it implements |
| `DaskControllerProofs` | type correctness and the order of creation, proved |
| `DaskConvergenceProofs` | "no wake-up is lost", proved |
| `DaskBringupProofs` | that `DaskController` implements `ClusterBringup`, proved |
| `DaskPassProofs` | what a pass may be refused, what it makes of a group, and what stays true of it beside other actors, proved |
| `DaskManagers` | two managers over one API server: `DaskController` twice |
| `DaskManagersProofs` | "no wake-up is lost", order, bring-up and harmless overtaking between the two, proved |
| `DaskManifests` | what the objects are made from: the context of a pass, the sections of a spec, the NetworkPolicies; extends `DaskController` |
| `DaskManifestProofs` | its three invariants and the bring-up of a cluster with such builders, proved |
| `DaskJobController` | the DaskJob reconciler, in the same way, with the Daskes it waits for |
| `DaskJobProofs` | type correctness, "no wake-up is lost", order, truth and permanence of the state, reasons of refusals, proved |
| `DaskOperator` | both controllers in one process: `DaskController` extended, `DaskJobController` instantiated |
| `DaskOperatorProofs` | that the composition does what `DaskJobController` says, with and without deletions, and that Jobs are created on clusters that are there, proved |
| `MCDaskController`, `MCDaskJobController`, `MCDaskManagers`, `MCDaskManifests`, `MCDaskOperator` | the specs used in runs |

### DaskController: state and steps

| Variable | Stands for |
|---|---|
| `dask`, `live` | the Dask resources and their twelve children in the API server |
| `cdask`, `cached` | the copies in the informer caches (only kinds that are watched) |
| `pending` | objects with a newer version than the cache has: an event is due |
| `queue` | the work queue of names |
| `rec` | the pass in progress: name, uid, spec and counts it has read, calls left to do (`todo`), copies it can no longer update (`stale`) |

| Step | Code |
|---|---|
| `Begin(d)` | `Reconcile` from the `Get` to `resourceDetails`: status counted, lookups done, calls decided (`ToDo`) |
| `BeginGone(d)` | the Dask is not found, nothing to do |
| `Call(op)` | the next `Create`, `Update` or `Status().Update` succeeds |
| `Refused(op)` | the next builder fails, or the API answers AlreadyExists or Conflict; the error return queues the name again |
| `ApiError`, `LostReply(op)`, `Crash` | a call fails without an effect; takes effect, answer lost; the operator dies and starts again |
| `Deliver(d, o)` | the watch updates a cached copy and queues the Dask |
| `Resync(d)` | the informers' periodic resync |
| `GarbageCollect(d, c)` | Kubernetes deletes a child whose owner is gone |
| `Rollout(d, c)` | pods of a Deployment become ready or stop being so |
| `CreateDask`, `EditDask`, `HandScale`, `DeleteChild`, `DeleteDask` | users |

The decisions of a pass depend on its snapshot alone, so they are made in
`Begin` (`todo`), and `Rank` fixes the order in which they are carried out;
`Gate` says which object's absence makes the reconciler create a child. An
owner is `cur` (the Dask that bears the name), `gone` (one deleted since),
`foreign` or `none`, so that a Dask deleted and created again under its name is
another one. A pass that is cut short by `resourceDetails` (an Ingress or
Service of another owner) changes nothing and is queued again, and so is no step.

Abstractions, and why they are safe here:

- The five lookups and the `Get` of a pass read the cache in one step. They run
  within a few microseconds; an event between two of them is due anyway and
  starts another pass.
- A cached copy jumps to the current version; versions in between are not
  shown. The handler still queues the owner for each of them, which `Deliver`
  does unless all of them had a foreign owner. A watch is assumed to lose
  nothing but by a restart (`Crash`), after which every object is listed.
- An event that only changes the text of `status.resources` is not modelled, as
  the text is not; the queueing it would cause is covered by `Resync`.
- A builder either succeeds or is in `spec.broken`.
- An object without a finalizer is gone at once when deleted. Children are
  deleted by the collector one by one, in any order (background deletion).

### DaskJobController: state and steps

The variables are those of `DaskController`, for DaskJobs (`daskjob`, `cjob`),
next to `dask` and `cdask`: whether each Dask is absent, there but not running,
or running, in the API server and in the cache. A child is an owner, a phase (of
a Job: `active`, `Complete`, `Failed`), the script it holds or mounts, and
whether it mounts the volume claim.

| Step | Code |
|---|---|
| `Begin(j)` | `Reconcile` down to `resourceDetails`, with a running Dask and a usable script |
| `BeginPending(j)` | there is no such Dask: the state becomes `Pending ...`, and the pass ends with an error whether that is saved or not |
| `BeginGone(j)` | the DaskJob is not found |
| `Call(op)`, `Refused(op)` | one of the four creates, or the status update |
| `Deliver(j, o)` | the watch updates a copy of a DaskJob, ConfigMap, claim or Job, and queues the DaskJob |
| `DeliverDask(c)` | the copy of a Dask is updated; *nothing is queued*, as this controller does not watch Daskes |
| `JobEnds(j)`, `DaskChanges(c)` | the Job's pod ends; a Dask is created, changes its state, is deleted |
| `CreateDaskJob`, `EditDaskJob`, `DeleteChild`, `DeleteDaskJob`, `GarbageCollect`, `Resync`, `ApiError`, `LostReply`, `Crash` | as for Daskes |

A pass that finds its Dask not running, its script of no known kind, or a Job of
another owner ends with an error before it has called anything: it is queued
again and nothing has changed, so that it is no step. The name is in the queue
all the while, which is how a Dask that comes up is noticed.

`ToDo` has the conditions of the code: the ConfigMap is looked up for itself;
the ServiceAccount is created whenever there is no Job; the claim when there is
neither a Job nor a claim and a report is wanted.

Abstractions, beyond those above:

- Of a script the model keeps its kind (`py`, `ipynb`, none), which decides the
  key of the ConfigMap and the path the Job mounts. The fetch of a script from
  a URL is part of `Begin`, and so always comes to an end.
- `broken` belongs to the spec of a DaskJob, though the builders also read the
  settings of its Dask (`daskjob_controller.go:148`), so that an edit of the Dask
  alone may make one fail or work again. Such a failure is an `ApiError` as far as
  the order of steps goes (no effect, the name is queued again), so that the safety
  properties cover it; `EventuallyReported` does not, as there are no errors in `Rest`.
- Only the states that `Reconcile` saves are in `States`: those set just before
  an error return (`Building`, the text of an error) are never written.
- Daskes do as they like within `DaskChanges`. That this covers what the Dask
  controller does to them is shown by `DaskOperator`.

### ClusterBringup

Two variables: which stages of a cluster are `built`, and whether its status has
been published (`told`). Two steps: a stage is completed after those it builds
on, and the cluster is told of once configuration, scheduler and workers are
there. In `DaskController` a stage is built when the last object of its group
exists (`LastOf`, the object the five lookups know the group by), and a cluster is
told of when the status of its present Dask is not the empty one.
`FollowsBringup` says that every step of the controller, its faults and its users
is a step of `ClusterBringup` or changes neither variable, as long as nothing is
deleted.

### DaskOperator: both controllers

The variables of the two modules, side by side; `dask` and `cdask` of
`DaskJobController` become `StateOf` those of `DaskController` (absent, running,
building), as a cache of Daskes is shared by the two in one manager.

| Step | Code |
|---|---|
| `DaskStep` | a step of `DaskController` that is no fault |
| `JobStep` | a step of the DaskJob reconciler, its events, its users, a Job that ends |
| `CallFault` | a call of either fails or its answer is lost |
| `Restart` | the process dies: `Crash` of both at once |

`JobsAsModelled` is `DaskJobController`'s own specification as long as nothing is
deleted, so that everything shown of it alone holds of the composition.
`OperatorRemovals` adds the deletions of both modules (`OperatorSpec`); it is in no
run, as its states are too many (over two million when a search was stopped), and in
a theorem.

### DaskManagers: two managers

`main.go:105` leaves leader election off, so that the old and the new process
both reconcile while one replaces the other. The second manager is an instance
of `DaskController` with a cache, events, a queue and a pass of its own
(`cdask2`, `cached2`, `pending2`, `queue2`, `rec2`); `dask` and `live` are
shared. A step of one is, for the other, what a step of a user is: an event
becomes due for each object that has changed, and a copy its pass has read of
the Dask or of the worker Deployment can no longer be updated (`Changed`, `Aged`).
`BothKept` has no deletions; `BothSpec` adds them (`RemovalStep`). Its states, too,
are more than a run can visit: it was searched up to two million of them and
simulated, and the theorems that name it hold of all of them.

`OvertakingIsHarmless` is about every step of a reconciler, not only about the
refusals: no step of either leaves part of a group whose gate is missing and which
neither manager is making, unless a builder fails on the spec. `Making` says what it
takes to be making a group: everything up to the gate is still to do and nothing of
it is there. A weaker reading (the gate is still to do) would count a manager that
is bound to be refused on the way, and would be false once specs are edited.

### DaskManifests: what the objects are made from

Two more variables: `ctx`, the `DaskContext` of the pass in progress, and `made`,
what each Deployment (and the ConfigMap, for the policy created before it) was
rendered from.

| Step | Code |
|---|---|
| `Start(d)` | `Begin`, and `SetConfig` |
| `Make(op)` | `Call`; the builder gets the context as `For...` leaves it (`Prepared`), and so do all later builders of the pass |
| `Reject(op)` | `Refused`, or a template that cannot be executed (`Unrenderable`) |
| `Panic(op)` | the type assertion at `models/worker.go:164` fails: the process dies |
| `World`, `Failures` | the other steps of `DaskController` |

A template that fails is a failed call and a panic a crash, so that every behaviour
is one of `DaskController` (the lemma `ManifestsSimulate`); what is proved there is
not checked again. A panic is not recovered from: it ends the passes of every Dask.

- A field of the context holds the parts of the spec its value comes from, not the
  value. `env` stands for the five fields that a section replaces (env, volumes,
  volumeMounts, nodeSelector, tolerations), `affinity` for the two it is merged
  into (affinity, resources): `applySpecifics` decodes into the pointer that is
  there. `form` is what the interface holds, as the worker builder asserts it: a
  pointer of the API's type, a map, or nil.
- The settings of a spec are given by `Settings`, a function of the specs, so that
  `DaskController`'s specs stay as they are.
- The policies are sets of <<peer, port>> rules; a pod that no policy selects for
  a direction is free in it. Ports are named after what listens on them. `Links`
  are the connections the objects of a cluster are made for: who has whose address
  in its environment, the backend of the Ingress for the monitor, and the name
  server, as those addresses are names. Two more that somebody may expect are not
  among them and are not to be had: `scheduler.go:246` has a comment that opens the
  monitor "for everyone" and a rule that opens it to the ingress controller only,
  and the Ingress has a host for the scheduler (README.md:51) whose port no rule
  opens to it.
- `Connected` is about each pod for itself: where its own group and the ConfigMap
  were made under one setting of the policies (`OneSetting`), it has every link,
  whatever spec and setting the pod at the other end and all others were made from.
  A pod made across a switch may not even have the name server: `NamesResolved`,
  which is violated.
- With `daemon` set, the worker builder panics and the operator dies when the
  context holds an affinity of the API's type, even none: with no section for the
  workers, or one whose affinity is merged into another, although README.md:45
  offers the field. An affinity in the workers' section alone, or a section
  without one, is a map or nil, and works. With `imagePullSecrets` set (README.md:59)
  no Deployment can be rendered, as the templates ask each secret for `.name`, unless
  a section has cleared them. Both are in the model (`Panics`, `Unrenderable`).
  `EventuallyMade` excuses a spec without policies whose workers' builder fails on
  the context of a pass that makes nothing before it (`Unmanageable`), and a group
  that is half made; where there are policies, a builder that fails leaves its group
  half made and is excused by that.

## Runs

All with one Dask name: names share no state but the one goroutine, and the
proofs below cover any number. Deadlock is not checked, since the system may
come to rest. The sizes are those of the state spaces; nothing is cut off by a
counter, every variable is finite by itself.

| Run | Specification and bounds | Shows |
|---|---|---|
| `kept` | fair; nothing is deleted; two specs to switch between, bare and with notebook, policies, ingress and a worker builder that fails; workers scaled by hand | `TypeOK`; `DependenciesFirst`: an object exists only after those its pods need; `StatusWitnessed`: a published status has configuration, scheduler and workers behind it; `PolicyFirst`: a Deployment comes after its policy; `FollowsBringup`: the abstract specification is implemented; `EventuallyConverged` |
| `full` | fair; everything may happen; one bare spec; the ConfigMap's name is taken by another owner, the worker Deployment is deleted by hand, the scheduler's pods come and go | `QuiescentMeansConverged`: nothing queued, in progress or due means the cluster is as asked; `StaleWritesAreRevisited`; `StatusCertified`; `RefusedForAReason`: a call is refused for a broken spec, for part of a group without its gate, or for an old copy about to be renewed; `EventuallyCleanedUp`: nothing of a deleted Dask remains |
| `half_made` | fair, no faults, no deletion | violated: `EventuallyComplete` |
| `taken` | no faults; the workers' name belongs to somebody else | violated: `OthersUntouched` |
| `jobs` | fair; DaskJobs and their children are never deleted, Daskes are; a good script with report, a script of no known kind, a Job that cannot be rendered | `TypeOK`; `JobDependencies`: a Job exists only after what its pod mounts and runs under; `StateTrue`: a published state is that of the Job; `EndStays`: an end is overwritten by nothing but the complaint that the Dask is gone; `EventuallyReported`: a DaskJob whose Dask runs in the end is run, and says so |
| `jobs_full` | everything may happen; one spec without report; the Job deleted by hand | `QuiescentMeansReported`: nothing queued, in progress or due means ConfigMap, Job and state are there; `EndCertified`: an end is announced for a Job that has ended so, or looked at again; `RefusedForAReason`: as for Daskes, the part of a group being a ServiceAccount without its Job |
| `stale_script` | DaskJobs are never deleted; a notebook with report is edited to a plain script and back | violated: `JobFindsItsScript` |
| `operator` | fair; both controllers, nothing is deleted; one bare Dask and one DaskJob, created in any order, calls that fail, restarts of both | `JobsAsModelled`; `JobOnCluster`: a Job is only created for a cluster whose configuration, scheduler and workers exist; `EventuallyRun`: the DaskJob is run though nobody announces its cluster |
| `managers` | fair; two managers, one Dask with policies, nothing is deleted, each manager fails and restarts by itself | `BothConverged`: no wake-up is lost by either; `DependenciesFirst` and `FollowsBringup`, of the cluster the two make; `OvertakingIsHarmless`: no step of either leaves a group half made; `EventuallyAgreed`: they do not keep each other from the cluster |
| `manifests` | fair; nothing is deleted; three specs that a Dask is edited between: a notebook and daemon workers with sections under policies, with a pull secret that the notebook's section clears; daemon workers with a section and an affinity to get rid of; daemon workers without a section, with a pull secret | `OwnSettings`: pods with a section get what it replaces from there only; `LeaksDownstream`; `Connected`; `EventuallyMade`: daemon workers come up when a section puts the affinity right |
| `names_lost` | the same without fairness | violated: `NamesResolved` |
| `specifics_leak` | the same without fairness | violated: `SpecificsStayTheirs` |

Why the bounds are enough: the twelve children, their gates and the order of
calls are all there, none is a parameter. The two specs of `kept`
reach the switch of every guard, and a pass that scales the workers and creates
the ingress. In `full` the worker `Deployment` stands for the gates that may vanish,
as it is also scaled and may be recreated in the middle of a pass; the ConfigMap of
another owner stands for a gate that is there without its group. One owner
that is gone is enough, as the collector treats all of them alike. `jobs` and `jobs_full` have one
DaskJob and one Dask: a DaskJob sees one Dask at a time, and its edits never
reach objects of another name. Three specs reach each way a pass ends; the Job
is the one child deleted by hand because the others are looked up through it.
`operator` has one of each for the same reason: the two controllers meet in the
status of one Dask. `managers` has the bare groups, each with a policy, so that a
group has up to three objects to be overtaken between; the notebook's group has
the same shape. Nothing is edited or scaled in it, for its size; the four
properties of it that are not liveness are proved with both.
In `manifests` a Dask is edited from any of the three specs to any other at any
moment, so that the objects of one cluster come from up to three of them.

**The five violations** are disagreements between the code and what the
repository says, listed as findings:

1. *A half-made group stays half made.* The code tests for one object per group
   and creates the others without looking. A pass that stops inside a group
   (an error, a crash, a spec that cannot be rendered) leaves objects that make
   every later pass fail with AlreadyExists. `EventuallyConverged` says this is
   the only way, next to a broken spec, in which convergence fails: it excuses both
   (`HalfMade`, `Broken`), and so does not itself catch a group left half made.
2. *A Deployment of another owner is scaled*, as the errors of
   `deploymentStatus` are overwritten in `resourceDetails`.
3. *A Job mounts a script its ConfigMap does not have*: the ConfigMap of an
   earlier spec is kept, the Job is made from the present one. It takes an edit
   and a pass that stopped between the two creates.
4. *Pods lose name resolution when policies are switched on.* The DNS policy is
   made with the ConfigMap and never again; a group made after the switch has a
   policy of its own, which restricts its pods to the cluster, and nothing that
   opens the name server.
5. *What the notebook's section sets reaches the scheduler and the workers.*
   `ForNotebook` and its like say they copy, and copy a pointer: they write into
   the context of the pass. The policies' builders are given the notebook's
   section as well, so that it happens without a notebook. `OwnSettings` and
   `LeaksDownstream` say how far the leak goes: never into the fields that a pod's
   own section replaces, and never upstream.

### Fairness

`Fairness` is weak for a pass in progress (a running goroutine makes its next
call), for each watch event and each collection, and strong for starting a pass
on a name: the work queue is first-in first-out, one goroutine takes from it,
and delays of retries are finite, so that a name queued again and again is
taken. Nothing is assumed of users, pods, faults and resync. Liveness is claimed
under `Rest`: from some time on only the operator and the control plane take
steps. It is stated of the steps and not of the variables because a fault can
have the same effect as a refused call. For DaskJobs the same is assumed, and that
the cache of Daskes catches up; `Rest` then includes that Daskes and Jobs stay as
they are. Strong fairness of starting a pass matters here: a DaskJob without a
Dask is queued again and again, and must be looked at after the Dask has come
up. `DaskOperator` and `DaskManagers` have the fairness of one controller twice,
as each has a queue and a goroutine of its own; in `DaskManifests` a panic ends a
pass as an error does. There strong fairness of `Start` is justified for one Dask only:
where a Dask panics in every pass, the queue starts anew each time and another one
may never be reached, so that `EventuallyMade` is not claimed for several. Nothing is assumed of the other process, or of the order
in which the two are told of a change.

## What is proved

TLAPS proves, for any set of names and specs, any names taken, and whatever is
scaled, rolled out and deleted:

| Theorem (`DaskController`) | States |
|---|---|
| `TypeCorrect` | `Spec => []TypeOK` |
| `DependenciesComeFirst` | `SpecKept => []DependenciesFirst` |
| `StatusIsWitnessed` | `SpecKept => []StatusWitnessed` |
| `PolicyComesFirst` | `SpecKept => PolicyFirst` |
| `QuiescentConverged` | `Spec => []QuiescentMeansConverged` |
| `StaleWritesRevisited` | `Spec => StaleWritesAreRevisited` |
| `StatusIsCertified` | `Spec => StatusCertified` |
| `BringupIsFollowed` | `SpecKept => FollowsBringup` |
| `RefusalsHaveReasons` | `Spec => RefusedForAReason` |

| Theorem (`DaskJobController`) | States |
|---|---|
| `TypeCorrect` | `Spec => []TypeOK` |
| `QuiescentReported` | `Spec => []QuiescentMeansReported` |
| `EndIsCertified` | `Spec => EndCertified` |
| `JobDependenciesFirst` | `SpecKept => []JobDependencies` |
| `StateIsTrue` | `SpecKept => []StateTrue` |
| `EndIsKept` | `SpecKept => EndStays` |
| `RefusalsHaveReasons` | `Spec => RefusedForAReason` |

| Theorem | States |
|---|---|
| `JobsAreAsModelled` (`DaskOperator`) | `OperatorKept => JobsAsModelled` |
| `JobsAreAlwaysAsModelled` (`DaskOperator`) | `OperatorSpec => Job!Spec` |
| `JobsAreOnClusters` (`DaskOperator`) | `OperatorKept => JobOnCluster` |
| `BothAreConverged` (`DaskManagers`) | `BothSpec => []BothConverged` |
| `OvertakingHarmless` (`DaskManagers`) | `BothSpec => OvertakingIsHarmless` |
| `BothFollowBringup` (`DaskManagers`) | `BothKept => FollowsBringup` |
| `BothKeepDependencies` (`DaskManagers`) | `BothKept => []DependenciesFirst` |
| `ManifestsFollowBringup` (`DaskManifests`) | `ManifestsKept => FollowsBringup` |
| `SectionsAreOwn` (`DaskManifests`) | `ManifestsKept => []OwnSettings` |
| `LeaksGoDownstream` (`DaskManifests`) | `ManifestsKept => []LeaksDownstream` |
| `PodsAreConnected` (`DaskManifests`) | `ManifestsKept => []Connected` |

Assumptions: `ClustersAssumption` (an idle goroutine works on no name),
`SpecsAssumption` and `BoundsAssumption` (types of the constants); for DaskJobs
`JobsAssumption` in the place of the first, and a `ClustersAssumption` that there
is a name for a Dask at all. `DaskOperator` has those of both and `SomeCluster`,
from which the latter follows. `DaskManifests` adds `SettingsAssumption` (every spec has settings) and
`NoneTaken`: no name is taken beforehand, as nothing is known of the rules of
a policy that is not the operator's.

*Order of creation.* `DependenciesFirst` is not inductive: a call creates an
object because earlier calls of the pass have made, or the snapshot has found,
what it needs. `PassKept` says so: each wanted call the pass no longer has
before it has had its effect, if the child is a gate or in a group still under
way; and what the cache holds exists (true only while nothing is deleted, hence
`SpecKept`). `KeptInv` joins the two. `Rank` gives the rest: a call that is due
has every call of lower rank behind it.

*No wake-up is lost.* `RestTrue` strengthens the property to a Dask that is not
queued and not in progress, with no event due about the Dask itself: it is as
asked in every respect no event is due about. Passes break and restore it, so
`PassTrue` makes the same `Claim` of the pass in progress, less the calls it
still has to make, as long as the name has not been queued since it began.
`CacheTrue` says that a copy no event is due about is right, which makes the
claim true when a pass begins. A step of anyone else leaves a claim alone
because it announces what it changes (`SameGates`, `ClaimKept`).

*Refusals.* `TodoTrue` says of a pass whose name has not been queued since it began
that its cache still lacks the gate of every child it is going to create, and that
an event is due about every copy it can no longer update: an event that would bring
either into the cache queues the name. With `CacheTrue`, a child that is there
while its gate is neither in the cache nor announced is part of a group without its
gate. So a pass is refused for ever only where a group is half made, which is
finding 1, where the spec is broken, or where the workers' Deployment is someone
else's. The argument for DaskJobs is the same, with a gate for each call
(`DecidedBy`).

*DaskJobs.* The two other arguments are the same. `Inv` has a `Claim` about a pass in
progress and about a DaskJob at rest: the ConfigMap, the Job and the state, but
for what an event is due about. A pending DaskJob needs none, since its pass ends
with an error and leaves it queued. `KeptInv` says what a pass has behind it:
ConfigMap and Job are there unless still to do, and account and claim are there
if the Job is still to do and they are not. That an end is never taken back
(`CacheKept`: a Job that has ended in the cache has ended so in the API) gives
`StateTrue`.

*Bring-up.* The refinement is a step simulation under `KeptInv`: only a create of
the last object of a group adds a stage, and the stages it builds on are there by
`DependenciesFirst` and, for the ingress, by what the pass has behind it; only the
status call tells of a cluster, with `StatusWitnessed` after it.

*Composition.* A step of the Dask controller is, for the DaskJobs, `DaskChanges`,
`DeliverDask` or nothing, as it changes `StateOf` at most one Dask. It is never a
deletion, and a new Dask has no status, which is why it is not `running`. A deleted
Dask becomes absent, and its cached copy goes on saying what it said, so that with
deletions the operator still implements `DaskJobController`, with its own
(`JobsAreAlwaysAsModelled`): wake-ups, announced ends and refusals are as proved of
that module. For
`JobOnCluster` the invariant (`OnCluster`) says that a Dask that runs in the
cache, and the Dask of a pass that is going to create a Job, have their core:
`StatusWitnessed` gives it when a status is delivered, and no step that
`ClusterBringup` allows takes it away.

*Two managers.* The invariant is `Inv` of both. A manager's own step keeps its
`Inv` by `InvNext`; a step of the other one keeps it by `InvTold`: whoever
announces what he changes, and leaves cache, queue and pass alone but for copies
grown old, breaks no claim. The lemmas for the second manager are those of the
first, by instantiation (`SecondProofs`).

`OvertakingHarmless` rests on `GateToCome` of both: a pass that is to create part of
a group is to create its gate. The first object of a group is created by a pass that
has the whole rest to do, and so is making it; a later one is created by a pass
that was making it before, or where the group was half made already, or the gate
exists (`HalfStays`). A pass that ends or is refused was not making anything, as the
object it is refused for is there. Restarts, lost answers and failed calls are no
steps of a reconciler: they are what leaves part of a group.

For order and bring-up each manager has `KeptInv`. A step of one only adds objects
and status, which is all that the `KeptInv` of the other asks (`KeptTold`); what the
two do to `live` and `dask` together is then what each is proved to do alone.

*Manifests.* `OwnSettings` and `LeaksDownstream` need an invariant about the
context of the pass in progress (`CtxInv`): once it holds something of the
scheduler's or the workers' section, the Deployments upstream are behind the
pass. `Connected` needs one about what is made (`Guarded`): an object made with
policies has the policy of its group, by the argument of `PolicyFirst`; the
ConfigMap is there before any Deployment, and with it, if it was made with policies,
the one for DNS (`OwnPolicies`). A pod made without has neither. That is all about the
pod that calls; at the one that is called a policy either is missing or admits
the caller, whenever it was made. `MadeInv` joins them with `Inv` and `KeptInv`.
`ManifestsFollowBringup` is `BringupIsFollowed` by a step simulation: `Make` is `Call`,
`Reject` is `Refused` or, where only the template fails, `ApiError`, and a panic is
`Crash`.

Only model-checked: the liveness properties (`EventuallyConverged`,
`EventuallyCleanedUp`, `EventuallyReported`, `EventuallyRun`, `EventuallyAgreed`,
`EventuallyMade`), as fairness and ENABLED are outside the proof system; the five
violations; and that the steps can happen at all. Every invariant and every action
property of a passing run is a theorem.

## Plan

What would come next, in this order:

1. What `EventuallyCleanedUp` says, short of liveness: that an object of a deleted Dask is
   known to the collector, whatever pass is still creating it.
2. Two managers with their DaskJob controllers: `JobsAsModelled` with a Dask that two
   processes write.
3. How far the five findings go: `OthersUntouched` and `JobFindsItsScript` under the
   weakest condition on names and edits that makes them true, proved.

## Not modelled

- The text of manifests, of `status.resources`, of events and logs.
- Validation of the CRD schemas, RBAC of the operator, the Helm chart, the
  kustomizations, notebooks and build rules: no behaviour of the program.
- Generated deep copies.
- The admission webhooks: defaults and one length check within a single request,
  off unless enabled (`main.go:107`). The models start from any spec, as they do
  without webhooks.
- The contents of scripts and of the ConfigMaps, the rules of an Ingress, images,
  ports' numbers and passwords.
- The order of an affinity's terms, and what a merged affinity is worth: only who
  has contributed to it is kept.
- `PROJECT.json` lists each
  component with its status and each hazard with the property that covers it, or
  the reason that none does yet.
