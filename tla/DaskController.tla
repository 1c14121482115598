--------------------------- MODULE DaskController ---------------------------
(***************************************************************************)
(* The Dask controller: the reconcile loop of controllers/dask_controller.go*)
(* between the informer cache it reads, the Kubernetes API it writes, the  *)
(* garbage collector, and the users who edit the Dask resources.           *)
(*                                                                         *)
(* One worker goroutine runs Reconcile for one Dask at a time.  A pass     *)
(* reads the Dask and five of its children from the CACHE, decides from    *)
(* that snapshot which objects to create, and then creates them one API    *)
(* call at a time, in a fixed order, stopping at the first error.  Each    *)
(* API call is a step here, so that everything else may happen between     *)
(* two of them.                                                            *)
(*                                                                         *)
(* The objects are twelve children per Dask, in five groups.  Only the     *)
(* LAST object of a group - its gate - is ever looked up: the whole group  *)
(* is created when the cache does not hold the gate.                       *)
(***************************************************************************)
EXTENDS Naturals, FiniteSets

CONSTANTS
    Clusters,   \* the names of the Dask resources
    NoCluster,  \* what an idle worker goroutine is working on
    Specs,      \* the specs users give a Dask
    Foreign,    \* children whose names are taken beforehand by another owner
    Rolling,    \* the Deployments whose pods come and go (bounds a run)
    HandScales, \* the replica counts set with "kubectl scale" (bounds a run)
    Removable   \* the children deleted by hand (bounds a run)

-----------------------------------------------------------------------------
(***************************************************************************)
(* Mutants of Rank: the workers are created before the scheduler; the      *)
(* status is updated first; the scheduler's policy comes after it.         *)
(***************************************************************************)
RankWorkersFirst ==
    [dnsPolicy |-> 1, serviceAccount |-> 2, config |-> 3, jupyterPolicy |-> 6,
     jupyterService |-> 7, jupyterDeployment |-> 8, schedulerPolicy |-> 9,
     schedulerService |-> 10, schedulerDeployment |-> 11, workerPolicy |-> 4,
     workerDeployment |-> 5, scale |-> 12, ingress |-> 13, status |-> 14]
RankStatusFirst ==
    [dnsPolicy |-> 1, serviceAccount |-> 2, config |-> 3, jupyterPolicy |-> 4,
     jupyterService |-> 5, jupyterDeployment |-> 6, schedulerPolicy |-> 7,
     schedulerService |-> 8, schedulerDeployment |-> 9, workerPolicy |-> 10,
     workerDeployment |-> 11, scale |-> 12, ingress |-> 13, status |-> 0]
RankPolicyLast ==
    [dnsPolicy |-> 1, serviceAccount |-> 2, config |-> 3, jupyterPolicy |-> 4,
     jupyterService |-> 5, jupyterDeployment |-> 6, schedulerPolicy |-> 9,
     schedulerService |-> 7, schedulerDeployment |-> 8, workerPolicy |-> 10,
     workerDeployment |-> 11, scale |-> 12, ingress |-> 13, status |-> 14]

(***************************************************************************)
(* The children of a Dask, in the order in which Reconcile creates them.   *)
(* "scale" and "status" are its two other API calls: the update of the     *)
(* worker Deployment's replicas, where there is one, in the place of its   *)
(* creation, and the closing status update.                                *)
(***************************************************************************)
Rank == [dnsPolicy           |->  1, serviceAccount      |->  2, config    |->  3,
         jupyterPolicy       |->  4, jupyterService      |->  5,
         jupyterDeployment   |->  6,
         schedulerPolicy     |->  7, schedulerService    |->  8,
         schedulerDeployment |->  9,
         workerPolicy        |-> 10, workerDeployment    |-> 11,
         scale               |-> 12,
         ingress             |-> 13, status              |-> 14]

\* The object whose absence from the cache makes Reconcile create the child.
Gate == [dnsPolicy           |-> "config",
         serviceAccount      |-> "config",
         config              |-> "config",
         jupyterPolicy       |-> "jupyterDeployment",
         jupyterService      |-> "jupyterDeployment",
         jupyterDeployment   |-> "jupyterDeployment",
         schedulerPolicy     |-> "schedulerDeployment",
         schedulerService    |-> "schedulerDeployment",
         schedulerDeployment |-> "schedulerDeployment",
         workerPolicy        |-> "workerDeployment",
         workerDeployment    |-> "workerDeployment",
         ingress             |-> "ingress"]

Child == DOMAIN Gate
Gates == {"config", "jupyterDeployment", "schedulerDeployment",
          "workerDeployment", "ingress"}
Deployments == {"jupyterDeployment", "schedulerDeployment", "workerDeployment"}
Policies == {"dnsPolicy", "jupyterPolicy", "schedulerPolicy", "workerPolicy"}
JupyterGroup == {"jupyterPolicy", "jupyterService", "jupyterDeployment"}

\* The kinds the manager watches (Owns): no NetworkPolicy, no ServiceAccount.
Watched == Deployments \cup {"config", "ingress", "jupyterService", "schedulerService"}

Calls == Child \cup {"scale", "status"}

SpecType == [jupyter  : BOOLEAN,      \* spec.jupyter
             policies : BOOLEAN,      \* ~ spec.disablepolicies
             ingress  : BOOLEAN,      \* jupyteringress or scheduleringress set
             replicas : Nat,          \* after SetConfig's default
             broken   : SUBSET Child] \* builders that fail on this spec

NoSpec == [jupyter |-> FALSE, policies |-> FALSE, ingress |-> FALSE,
           replicas |-> 0, broken |-> {}]

ASSUME ClustersAssumption == NoCluster \notin Clusters
ASSUME SpecsAssumption == Specs \subseteq SpecType
ASSUME BoundsAssumption == /\ Foreign \subseteq Child
                           /\ Rolling \subseteq Deployments
                           /\ HandScales \subseteq Nat
                           /\ Removable \subseteq Child

-----------------------------------------------------------------------------
(***************************************************************************)
(* A child, in the API or in the cache.  An owner is "cur", the Dask that  *)
(* now bears the cluster's name, "gone", one of that name deleted since,   *)
(* "foreign", or "none" when the child does not exist.  A Deployment is    *)
(* "fresh" until its controller has reported any pod (0 of 0 ready), then  *)
(* "rolling" (fewer ready than wanted) or "ready".                         *)
(***************************************************************************)
Object == [owner    : {"none", "cur", "gone", "foreign"},
           phase    : {"fresh", "rolling", "ready"},
           replicas : Nat]

Absent == [owner |-> "none", phase |-> "fresh", replicas |-> 0]
Taken  == [owner |-> "foreign", phase |-> "ready", replicas |-> 0]

Exists(o) == o.owner # "none"
OwnedByDask(o) == o.owner \in {"cur", "gone"}

Status == [replicas : Nat, succeeded : Nat, state : {"", "Building", "Running"}]
NoStatus == [replicas |-> 0, succeeded |-> 0, state |-> ""]
NoDask == [uid |-> "none", spec |-> NoSpec, status |-> NoStatus]
Idle == [key |-> NoCluster, uid |-> "none", spec |-> NoSpec, status |-> NoStatus,
         todo |-> {}, stale |-> {}]

VARIABLES
    dask,     \* the Dask resources, as the API server has them
    live,     \* their children, as the API server has them
    cdask,    \* the Dask resources in the controller's cache
    cached,   \* the watched children in the controller's cache
    pending,  \* objects whose cached copy is out of date: an event is due
    queue,    \* the work queue: names to reconcile, without duplicates
    rec       \* the pass in progress: what it has read and what is left to do

vars == <<dask, live, cdask, cached, pending, queue, rec>>

DaskType == [uid : {"none", "cur"}, spec : SpecType, status : Status]
CachedDaskType == [uid : {"none", "cur", "gone"}, spec : SpecType, status : Status]
PassType == [key : Clusters \cup {NoCluster}, uid : {"none", "cur", "gone"},
             spec : SpecType, status : Status, todo : SUBSET Calls,
             stale : SUBSET {"dask", "workerDeployment"}]

\* The variables have their types; a pass in progress still has to publish its
\* status, and an idle worker holds nothing.
TypeOK ==
    /\ dask \in [Clusters -> DaskType]
    /\ live \in [Clusters -> [Child -> Object]]
    /\ cdask \in [Clusters -> CachedDaskType]
    /\ cached \in [Clusters -> [Watched -> Object]]
    /\ pending \in [Clusters -> SUBSET (Watched \cup {"dask"})]
    /\ queue \in SUBSET Clusters
    /\ rec \in PassType
    /\ rec.key = NoCluster => rec = Idle
    /\ rec.key \in Clusters => "status" \in rec.todo

Beforehand == [c \in Child |-> IF c \in Foreign THEN Taken ELSE Absent]

Init ==
    /\ dask = [d \in Clusters |-> NoDask]
    /\ live = [d \in Clusters |-> Beforehand]
    /\ cdask = dask
    /\ cached = [d \in Clusters |-> [c \in Watched |-> Beforehand[c]]]
    /\ pending = [d \in Clusters |-> {}]
    /\ queue = {}
    /\ rec = Idle

-----------------------------------------------------------------------------
(***************************************************************************)
(* What a pass decides from its snapshot.                                  *)
(***************************************************************************)

\* The spec asks for the child at all.
Wanted(s, c) == /\ c \in Policies => s.policies
                /\ c \in JupyterGroup => s.jupyter
                /\ c = "ingress" => s.ingress

\* (mutant of Observed) a state that is none of the published ones
ObservedReady(kids) ==
    [replicas |-> Cardinality({c \in Deployments : Exists(kids[c])}),
     succeeded |-> 0, state |-> "Ready"]

\* Deployments found, and those of them with as many ready pods as pods.
Observed(kids) ==
    LET found == {c \in Deployments : Exists(kids[c])}
        done  == {c \in found : kids[c].phase # "rolling"}
    IN [replicas  |-> Cardinality(found),
        succeeded |-> Cardinality(done),
        state     |-> IF found = done THEN "Running" ELSE "Building"]

\* (mutant of ToDo) the replicas are set at creation only
ToDoUnscaled(s, kids) ==
    {c \in Child : Wanted(s, c) /\ ~Exists(kids[Gate[c]])} \cup {"status"}

\* (mutant of ToDo) a group is created without looking for its gate
ToDoBlind(s, kids) ==
    {c \in Child : Wanted(s, c)}
    \cup {x \in {"scale"} : /\ Exists(kids["workerDeployment"])
                            /\ kids["workerDeployment"].replicas # s.replicas}
    \cup {"status"}

\* The API calls the pass is going to make.
ToDo(s, kids) ==
    {c \in Child : Wanted(s, c) /\ ~Exists(kids[Gate[c]])}
    \cup {x \in {"scale"} : /\ Exists(kids["workerDeployment"])
                            /\ kids["workerDeployment"].replicas # s.replicas}
    \cup {"status"}

\* resourceDetails gives up on an Ingress or a Service of another owner, and
\* only on those: what it finds of the Deployments is overwritten.
DetailsOk(s, kids) ==
    \A c \in {"ingress", "schedulerService", "jupyterService"} :
        Wanted(s, c) => kids[c].owner # "foreign"

\* (mutant of Due) the objects are created in parallel
DueInParallel(op) == /\ rec.key \in Clusters
                     /\ op \in rec.todo
                     /\ op = "status" => rec.todo = {"status"}

Due(op) == /\ rec.key \in Clusters
           /\ op \in rec.todo
           /\ \A x \in rec.todo : Rank[op] <= Rank[x]

-----------------------------------------------------------------------------
(***************************************************************************)
(* The reconciler.                                                         *)
(***************************************************************************)

\* Objects of d have a new version in the API: the pass in progress, if it is
\* on d, can no longer update the copies it has read of them.
Touched(d, objs) ==
    rec' = IF rec.key # d THEN rec
           ELSE [rec EXCEPT !.stale = @ \cup (objs \cap {"dask", "workerDeployment"})]

\* Reconcile starts on d: it resets the status, counts the Deployments and
\* computes what is missing.  Where resourceDetails fails the pass ends with
\* an error and d is queued again, which changes nothing.
Begin(d) ==
    /\ rec = Idle
    /\ d \in queue
    /\ cdask[d].uid # "none"
    /\ DetailsOk(cdask[d].spec, cached[d])
    /\ queue' = queue \ {d}
    /\ rec' = [key    |-> d,
               uid    |-> cdask[d].uid,
               spec   |-> cdask[d].spec,
               status |-> Observed(cached[d]),
               todo   |-> ToDo(cdask[d].spec, cached[d]),
               stale  |-> pending[d] \cap {"dask", "workerDeployment"}]
    /\ UNCHANGED <<dask, live, cdask, cached, pending>>

\* Reconcile on a name the cache no longer holds: nothing to do.
BeginGone(d) ==
    /\ rec = Idle
    /\ d \in queue
    /\ cdask[d].uid = "none"
    /\ queue' = queue \ {d}
    /\ UNCHANGED <<dask, live, cdask, cached, pending, rec>>

\* The API server accepts the call, and the builder before it succeeds: a name
\* must be free, an updated copy must be the latest.
Accepted(op) ==
    LET d == rec.key IN
    \/ op \in Child /\ ~Exists(live[d][op]) /\ op \notin rec.spec.broken
    \/ op = "scale" /\ "workerDeployment" \notin rec.stale
    \/ op = "status" /\ "dask" \notin rec.stale

\* (mutant of Create) no owner reference is set on the child
CreateUnowned(c) ==
    LET d == rec.key IN
    /\ live' = [live EXCEPT ![d][c] = [owner |-> "foreign", phase |-> "fresh",
                                      replicas |-> rec.spec.replicas]]
    /\ pending' = [pending EXCEPT ![d] = @ \cup ({c} \cap Watched)]
    /\ UNCHANGED dask

\* A child is created for the Dask the pass has read, which may be gone by now.
Create(c) ==
    LET d == rec.key IN
    /\ live' = [live EXCEPT ![d][c] =
                  [owner    |-> rec.uid,
                   phase    |-> "fresh",
                   replicas |-> IF c = "workerDeployment" THEN rec.spec.replicas ELSE 0]]
    /\ pending' = [pending EXCEPT ![d] = @ \cup ({c} \cap Watched)]
    /\ UNCHANGED dask

Scale ==
    LET d == rec.key IN
    /\ live' = [live EXCEPT ![d]["workerDeployment"].replicas = rec.spec.replicas]
    /\ pending' = [pending EXCEPT ![d] = @ \cup {"workerDeployment"}]
    /\ UNCHANGED dask

\* An update that changes nothing makes no new version, hence no event.
SaveStatus ==
    LET d == rec.key IN
    /\ dask' = [dask EXCEPT ![d].status = rec.status]
    /\ pending' = IF dask[d].status = rec.status THEN pending
                  ELSE [pending EXCEPT ![d] = @ \cup {"dask"}]
    /\ UNCHANGED live

Apply(op) == \/ op \in Child /\ Create(op)
             \/ op = "scale" /\ Scale
             \/ op = "status" /\ SaveStatus

\* (mutant of Fail) the error is logged and swallowed
FailQuietly == rec' = Idle /\ UNCHANGED queue

\* The pass ends with an error: the name goes back to the work queue.
Fail == rec' = Idle /\ queue' = queue \cup {rec.key}

\* The next API call succeeds.
Call(op) ==
    /\ Due(op)
    /\ Accepted(op)
    /\ Apply(op)
    /\ rec' = IF op = "status" THEN Idle ELSE [rec EXCEPT !.todo = @ \ {op}]
    /\ UNCHANGED <<cdask, cached, queue>>

\* The next builder fails, or the API refuses the call (AlreadyExists, Conflict).
Refused(op) ==
    /\ Due(op)
    /\ ~Accepted(op)
    /\ Fail
    /\ UNCHANGED <<dask, live, cdask, cached, pending>>

-----------------------------------------------------------------------------
(***************************************************************************)
(* The cluster around it: watch events, the garbage collector, pods.       *)
(***************************************************************************)

\* (mutants of Deliver) an event about the Dask in progress is dropped;
\* Deployments are not among the kinds that are owned
DeliverUnlessBusy(d, o) ==
    /\ o \in pending[d]
    /\ pending' = [pending EXCEPT ![d] = @ \ {o}]
    /\ queue' = IF rec.key = d THEN queue ELSE queue \cup {d}
    /\ cdask' = IF o = "dask" THEN [cdask EXCEPT ![d] = dask[d]] ELSE cdask
    /\ cached' = IF o = "dask" THEN cached ELSE [cached EXCEPT ![d][o] = live[d][o]]
    /\ UNCHANGED <<dask, live, rec>>
DeliverNoDeployment(d, o) ==
    /\ o \in pending[d]
    /\ pending' = [pending EXCEPT ![d] = @ \ {o}]
    /\ queue' = IF o \in Deployments THEN queue ELSE queue \cup {d}
    /\ cdask' = IF o = "dask" THEN [cdask EXCEPT ![d] = dask[d]] ELSE cdask
    /\ cached' = IF o = "dask" THEN cached ELSE [cached EXCEPT ![d][o] = live[d][o]]
    /\ UNCHANGED <<dask, live, rec>>

\* The watch brings the cached copy up to date and queues the Dask: itself, or
\* the controlling owner of the object in any version the watch went through.
\* It goes through all of them, so that an object that came and went in between
\* (absent before and after) was created by Reconcile and queues its Dask too.
Deliver(d, o) ==
    /\ o \in pending[d]
    /\ pending' = [pending EXCEPT ![d] = @ \ {o}]
    /\ IF o = "dask"
       THEN /\ cdask' = [cdask EXCEPT ![d] = dask[d]]
            /\ queue' = queue \cup {d}
            /\ UNCHANGED cached
       ELSE /\ cached' = [cached EXCEPT ![d][o] = live[d][o]]
            /\ queue' = IF cached[d][o].owner = "foreign" /\ ~OwnedByDask(live[d][o])
                        THEN queue ELSE queue \cup {d}
            /\ UNCHANGED cdask
    /\ UNCHANGED <<dask, live, rec>>

\* The periodic resync of the informers.
Resync(d) ==
    /\ cdask[d].uid # "none"
    /\ queue' = queue \cup {d}
    /\ UNCHANGED <<dask, live, cdask, cached, pending, rec>>

\* A child is changed by someone other than the reconciler.
Becomes(d, c, o) ==
    /\ live' = [live EXCEPT ![d][c] = o]
    /\ pending' = [pending EXCEPT ![d] = @ \cup ({c} \cap Watched)]
    /\ Touched(d, {c})
    /\ UNCHANGED <<dask, cdask, cached, queue>>

GarbageCollect(d, c) ==
    /\ live[d][c].owner = "gone"
    /\ Becomes(d, c, Absent)

\* Pods of a Deployment become ready, or stop being so.
Rollout(d, c) ==
    /\ Exists(live[d][c])
    /\ \E p \in {"rolling", "ready"} \ {live[d][c].phase} :
          Becomes(d, c, [live[d][c] EXCEPT !.phase = p])

-----------------------------------------------------------------------------
(***************************************************************************)
(* The users.                                                              *)
(***************************************************************************)
\* (mutant of CreateDask) status is no subresource: a Dask written back from a
\* backup brings its old status along
RestoreDask(d, s) ==
    /\ dask[d].uid = "none"
    /\ dask' = [dask EXCEPT ![d] = [uid |-> "cur", spec |-> s,
                                   status |-> [NoStatus EXCEPT !.state = "Running"]]]
    /\ pending' = [pending EXCEPT ![d] = @ \cup {"dask"}]
    /\ Touched(d, {"dask"})
    /\ UNCHANGED <<live, cdask, cached, queue>>

CreateDask(d, s) ==
    /\ dask[d].uid = "none"
    /\ dask' = [dask EXCEPT ![d] = [uid |-> "cur", spec |-> s, status |-> NoStatus]]
    /\ pending' = [pending EXCEPT ![d] = @ \cup {"dask"}]
    /\ Touched(d, {"dask"})
    /\ UNCHANGED <<live, cdask, cached, queue>>

EditDask(d, s) ==
    /\ dask[d].uid = "cur"
    /\ dask[d].spec # s
    /\ dask' = [dask EXCEPT ![d].spec = s]
    /\ pending' = [pending EXCEPT ![d] = @ \cup {"dask"}]
    /\ Touched(d, {"dask"})
    /\ UNCHANGED <<live, cdask, cached, queue>>

HandScale(d, n) ==
    /\ Exists(live[d]["workerDeployment"])
    /\ live[d]["workerDeployment"].replicas # n
    /\ Becomes(d, "workerDeployment", [live[d]["workerDeployment"] EXCEPT !.replicas = n])

DeleteChild(d, c) ==
    /\ Exists(live[d][c])
    /\ Becomes(d, c, Absent)

\* The owner "cur" becomes an owner that is gone.
Orphaned(o) == IF o.owner = "cur" THEN [o EXCEPT !.owner = "gone"] ELSE o
Deceased(x) == IF x.uid = "cur" THEN [x EXCEPT !.uid = "gone"] ELSE x

\* The Dask is deleted; its children stay until the garbage collector's turn.
DeleteDask(d) ==
    /\ dask[d].uid = "cur"
    /\ dask' = [dask EXCEPT ![d] = NoDask]
    /\ live' = [live EXCEPT ![d] = [c \in Child |-> Orphaned(live[d][c])]]
    /\ cdask' = [cdask EXCEPT ![d] = Deceased(@)]
    /\ cached' = [cached EXCEPT ![d] = [c \in Watched |-> Orphaned(cached[d][c])]]
    /\ pending' = [pending EXCEPT ![d] = @ \cup {"dask"}]
    /\ rec' = IF rec.key # d THEN rec
              ELSE [Deceased(rec) EXCEPT !.stale = @ \cup {"dask"}]
    /\ UNCHANGED queue

-----------------------------------------------------------------------------
(***************************************************************************)
(* Faults.                                                                 *)
(***************************************************************************)

\* An API call fails without an effect: throttling, a webhook, no connection.
ApiError ==
    /\ rec.key \in Clusters
    /\ Fail
    /\ UNCHANGED <<dask, live, cdask, cached, pending>>

\* An API call takes effect and its answer is lost.
LostReply(op) ==
    /\ Due(op)
    /\ Accepted(op)
    /\ Apply(op)
    /\ Fail
    /\ UNCHANGED <<cdask, cached>>

\* The operator dies and starts again: fresh caches, and an event for every
\* object listed, as long as it is a Dask or belongs to one.
Crash ==
    /\ rec' = Idle
    /\ cdask' = dask
    /\ cached' = [d \in Clusters |-> [c \in Watched |-> live[d][c]]]
    /\ pending' = [d \in Clusters |-> {}]
    /\ queue' = {d \in Clusters : \/ dask[d].uid # "none"
                                  \/ \E c \in Watched : OwnedByDask(live[d][c])}
    /\ UNCHANGED <<dask, live>>

-----------------------------------------------------------------------------
Reconciler == \/ \E d \in Clusters : Begin(d) \/ BeginGone(d)
              \/ \E op \in Calls : Call(op) \/ Refused(op)

ControlPlane == \E d \in Clusters :
    \/ \E o \in pending[d] : Deliver(d, o)
    \/ Resync(d)
    \/ \E c \in Child : GarbageCollect(d, c)

Pods == \E d \in Clusters : \E c \in Rolling : Rollout(d, c)

Users == \E d \in Clusters :
    \/ \E s \in Specs : CreateDask(d, s) \/ EditDask(d, s)
    \/ \E n \in HandScales : HandScale(d, n)

Removals == \E d \in Clusters :
    \/ DeleteDask(d)
    \/ \E c \in Removable : DeleteChild(d, c)

Faults == ApiError \/ Crash \/ \E op \in Calls : LostReply(op)

Next == Reconciler \/ ControlPlane \/ Pods \/ Users \/ Removals \/ Faults

\* Nothing is ever deleted; nothing ever fails either.
NextKept == Reconciler \/ ControlPlane \/ Pods \/ Users \/ Faults
NextCalm == Reconciler \/ ControlPlane \/ Pods \/ Users

Spec == Init /\ [][Next]_vars
SpecKept == Init /\ [][NextKept]_vars
SpecCalm == Init /\ [][NextCalm]_vars

(***************************************************************************)
(* Fairness.  The work queue is first-in first-out and one goroutine takes *)
(* from it, so that a queued name gets its turn; a pass runs on; watch     *)
(* events arrive; the garbage collector works.  Users, pods, the resync    *)
(* and faults owe nothing.                                                 *)
(***************************************************************************)
Fairness ==
    /\ \A d \in Clusters : SF_vars(Begin(d) \/ BeginGone(d))
    /\ WF_vars(\E op \in Calls : Call(op) \/ Refused(op))
    /\ \A d \in Clusters : \A o \in Watched \cup {"dask"} : WF_vars(Deliver(d, o))
    /\ \A d \in Clusters : \A c \in Child : WF_vars(GarbageCollect(d, c))

FairSpec == Spec /\ Fairness
FairSpecKept == SpecKept /\ Fairness
FairSpecCalm == SpecCalm /\ Fairness

-----------------------------------------------------------------------------
(***************************************************************************)
(* What is settled, and what is right.                                     *)
(***************************************************************************)

\* Nothing is under way or announced for d.
Settled(d) == d \notin queue /\ rec.key # d /\ pending[d] = {}

\* The groups that the spec asks for, less those whose name is taken.
Required(s) == {g \in Gates \ Foreign : Wanted(s, g)}

Scaled(d) == "workerDeployment" \notin Foreign =>
                live[d]["workerDeployment"].replicas = dask[d].spec.replicas

StatusTrue(d) == Foreign \cap Deployments = {} => dask[d].status = Observed(live[d])

Converged(d) == /\ \A g \in Required(dask[d].spec) : Exists(live[d][g])
                /\ Scaled(d)
                /\ StatusTrue(d)

\* What an object is no use without: the pods of a Deployment mount the ConfigMap
\* (whose group has their ServiceAccount) and are reached through a Service of the
\* same group; the workers and the Ingress go to the scheduler.
Needs == [serviceAccount      |-> {},
          config              |-> {"serviceAccount"},
          jupyterService      |-> {"config"},
          jupyterDeployment   |-> {"config", "jupyterService"},
          schedulerService    |-> {"config"},
          schedulerDeployment |-> {"config", "schedulerService"},
          workerDeployment    |-> {"config", "schedulerDeployment"},
          ingress             |-> {"config", "schedulerDeployment"}]

\* The policy of c's own group, where the pass in progress wants policies.
OwnPolicy(c) == {p \in Policies : Wanted(rec.spec, p) /\ Gate[p] = c}

\* Part of a group exists, its gate does not, and no pass is about to make it.
HalfMade(d) == \E c \in Child :
    /\ Exists(live[d][c])
    /\ ~Exists(live[d][Gate[c]])
    /\ Wanted(dask[d].spec, c)
    /\ ~(rec.key = d /\ Gate[c] \in rec.todo /\ c \notin rec.todo)

\* A wanted builder fails on the spec.
Broken(d) == \E c \in dask[d].spec.broken : Wanted(dask[d].spec, c)

-----------------------------------------------------------------------------
(***************************************************************************)
(* Safety.                                                                 *)
(***************************************************************************)

\* No wake-up is lost: whatever was refused, failed, deleted or read stale, a
\* Dask that is neither queued, nor in progress, nor about to get an event has
\* every group its spec asks for, its workers scaled and a true status.
QuiescentMeansConverged == \A d \in Clusters :
    dask[d].uid = "cur" /\ Settled(d) => Converged(d)

\* As long as nothing is deleted, an object of a Dask is there only once the
\* objects it needs are: no Deployment without the ConfigMap and the
\* ServiceAccount of its pods, no worker without the scheduler and its Service.
DependenciesFirst == \A d \in Clusters : \A c \in DOMAIN Needs :
    OwnedByDask(live[d][c]) => \A p \in Needs[c] : Exists(live[d][p])

\* As long as nothing is deleted, a status is only ever published once the
\* scheduler, the workers and their configuration have been created.
StatusWitnessed == \A d \in Clusters :
    dask[d].status # NoStatus =>
        \A g \in {"config", "schedulerDeployment", "workerDeployment"} : Exists(live[d][g])

\* As long as nothing is deleted, a pass whose spec wants policies creates the
\* object that completes a group only once the policy of the group is there.
PolicyFirst == [][\A d \in Clusters : \A g \in Gates :
    ~Exists(live[d][g]) /\ Exists(live'[d][g]) =>
        \A p \in OwnPolicy(g) : Exists(live[d][p])]_vars

\* A write made from an old copy of the Dask is always looked at again: after
\* each call of a pass, the Dask is as the pass has read it, or an event about
\* it is due, or it is queued.
StaleWritesAreRevisited == [][\A op \in Calls : \A d \in Clusters :
    rec.key = d /\ Call(op) =>
        \/ d \in queue'
        \/ "dask" \in pending'[d]
        \/ rec.spec = dask[d].spec /\ rec.uid = dask[d].uid]_vars

\* A status vouches for the objects: when it changes, every group the pass
\* wanted exists, or an event about its gate is due, or the Dask is queued.
StatusCertified == [][\A d \in Clusters :
    /\ dask[d].uid = "cur" /\ dask'[d].uid = "cur"
    /\ dask'[d].status # dask[d].status
    => \A g \in Required(rec.spec) :
          Exists(live[d][g]) \/ g \in pending'[d] \/ d \in queue']_vars

\* The object whose copy decides on a call.
DecidedBy(op) == IF op \in Child THEN Gate[op]
                 ELSE IF op = "scale" THEN "workerDeployment" ELSE "dask"

\* No pass fails in vain, for ever: where a call is refused, the builder fails on
\* the spec, or part of a group is left without its gate, or the copy the pass
\* has decided from is out of date, so that an event is due or has queued the
\* name.  Whatever else was refused would be refused again by every retry.
RefusedForAReason == [][\A d \in Clusters : \A op \in Calls :
    rec.key = d /\ Refused(op) =>
        \/ op \in rec.spec.broken
        \/ HalfMade(d)'
        \/ d \in queue
        \/ {"dask", DecidedBy(op)} \cap pending[d] # {}
        \/ op = "scale" /\ "workerDeployment" \in Foreign]_vars

-----------------------------------------------------------------------------
(***************************************************************************)
(* The inductive invariants behind them.                                   *)
(***************************************************************************)

\* Whatever is not announced is in the cache as it is in the API; a name taken
\* beforehand is one of Foreign; a pass works for a Dask it has read.
CacheTrue ==
    /\ \A d \in Clusters :
          /\ "dask" \notin pending[d] => cdask[d] = dask[d]
          /\ \A c \in Watched \ pending[d] : cached[d][c] = live[d][c]
          /\ \A c \in Child : live[d][c].owner = "foreign" => c \in Foreign
          /\ \A c \in Watched : cached[d][c].owner = "foreign" => c \in Foreign
    /\ rec.key \in Clusters => rec.uid # "none"

\* With the calls in todo still to come, the children kids are what spec s asks
\* for and status st says, but for those an event is due about.
Claim(kids, due, s, todo, st) ==
    /\ \A g \in Required(s) \ (due \cup todo) : Exists(kids[g])
    /\ "workerDeployment" \notin Foreign \cup due \cup todo /\ "scale" \notin todo
          => kids["workerDeployment"].replicas = s.replicas
    /\ Deployments \cap (Foreign \cup due) = {} => st = Observed(kids)

\* A pass that no later event contradicts works from the truth.
PassTrue(d) == rec.key = d /\ d \notin queue =>
    /\ Claim(live[d], pending[d], rec.spec, rec.todo, rec.status)
    /\ "dask" \notin pending[d] => rec.spec = dask[d].spec /\ rec.uid = dask[d].uid

\* A Dask left alone is right, but for what an event is due about.
RestTrue(d) ==
    /\ dask[d].uid = "cur"
    /\ rec.key # d /\ d \notin queue /\ "dask" \notin pending[d]
    => Claim(live[d], pending[d], dask[d].spec, {}, dask[d].status)

\* What a pass is still to do is missing from the cache, or old in it, unless the
\* name has been queued since.
TodoTrue(d) == rec.key = d /\ d \notin queue =>
    /\ \A c \in Child \cap rec.todo : Wanted(rec.spec, c) /\ ~Exists(cached[d][Gate[c]])
    /\ rec.stale \ Foreign \subseteq pending[d]

\* A pass that is to create part of a group is to create its gate.
GateToCome == \A c \in Child \cap rec.todo : Gate[c] \in rec.todo

Inv == TypeOK /\ CacheTrue /\ \A d \in Clusters : PassTrue(d) /\ RestTrue(d)

\* While nothing is deleted, the calls a pass has behind it have had their
\* effect, and what it found made is made.
PassKept(d) == rec.key = d =>
    /\ rec.uid = "cur"
    /\ \A c \in Child \cap rec.todo : Wanted(rec.spec, c)
    /\ "scale" \in rec.todo => Exists(live[d]["workerDeployment"])
    /\ \A c \in Child \ rec.todo :
          Wanted(rec.spec, c) /\ (c \in Gates \/ Gate[c] \in rec.todo) => Exists(live[d][c])

KeptInv ==
    /\ TypeOK
    /\ \A d \in Clusters :
          /\ PassKept(d)
          /\ cdask[d].uid # "gone"
          /\ \A c \in Child : live[d][c].owner # "gone"
          /\ \A c \in Watched : Exists(cached[d][c]) => Exists(live[d][c])
    /\ DependenciesFirst
    /\ StatusWitnessed

-----------------------------------------------------------------------------
(***************************************************************************)
(* Liveness, once users, faults and pods have come to rest.                *)
(***************************************************************************)
\* From some time on, only the operator and the control plane take steps.
Rest == <>[][Reconciler \/ ControlPlane]_vars

\* The cluster the users last asked for is eventually there, for good, unless
\* a failure has left part of a group or the spec cannot be rendered.
EventuallyConverged == Rest => \A d \in Clusters :
    <>[](dask[d].uid = "cur" => Converged(d) \/ HalfMade(d) \/ Broken(d))

\* After its deletion nothing of a Dask remains, not even what a pass that was
\* in progress has created since.
EventuallyCleanedUp == Rest => \A d \in Clusters :
    <>[](dask[d].uid = "none" => \A c \in Child \ Foreign : ~Exists(live[d][c]))

-----------------------------------------------------------------------------
(***************************************************************************)
(* What the repository says and the code does not do.                      *)
(***************************************************************************)

\* controllers/dask_controller_test.go:66-83 waits for the Deployments of a Dask
\* to be there eventually.  Where a spec could not be rendered half-way through
\* a group and is then put right, they never are: the first object of the group
\* already exists.
EventuallyComplete == Rest => \A d \in Clusters :
    <>[](dask[d].uid = "cur" /\ ~Broken(d) =>
            \A g \in Required(dask[d].spec) : Exists(live[d][g]))

\* controllers/utils.go:195-200: "...make sure it's a Dask..." - the details of an
\* object with another owner are an error.  The reconciler nevertheless scales
\* a Deployment of another owner that bears the workers' name.
OthersUntouched == [][\A d \in Clusters : \A op \in Calls :
    rec.key = d /\ Call(op) => \A c \in Child :
        live[d][c].owner = "foreign" => live'[d][c] = live[d][c]]_vars

-----------------------------------------------------------------------------
(***************************************************************************)
(* The abstract specification: ClusterBringup.                             *)
(***************************************************************************)

\* The object that completes a stage.
LastOf == [config    |-> "config",
           notebook  |-> "jupyterDeployment",
           scheduler |-> "schedulerDeployment",
           workers   |-> "workerDeployment",
           ingress   |-> "ingress"]

StagesOf(kids) == {s \in DOMAIN LastOf : Exists(kids[LastOf[s]])}

Bringup == INSTANCE ClusterBringup
    WITH Given <- StagesOf(Beforehand),
         built <- [d \in Clusters |-> StagesOf(live[d])],
         told  <- [d \in Clusters |-> dask[d].uid = "cur" /\ dask[d].status # NoStatus]

\* As long as nothing is deleted, users, faults and late events can make a
\* cluster come up in no other way than ClusterBringup allows: stages one at a
\* time, each after those it builds on, none lost, and a status published for
\* the first time only once the core is complete.
FollowsBringup == Bringup!Spec

=============================================================================
