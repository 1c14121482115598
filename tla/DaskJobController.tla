-------------------------- MODULE DaskJobController --------------------------
(***************************************************************************)
(* The DaskJob controller: the reconcile loop of                           *)
(* controllers/daskjob_controller.go between the informer cache it reads,  *)
(* the Kubernetes API it writes, the Dask resources it waits for, and the  *)
(* users.                                                                  *)
(*                                                                         *)
(* A pass needs the Dask that the DaskJob names to be "Running" in the     *)
(* cache.  It then creates the ConfigMap with the script, the volume claim *)
(* for the report, the ServiceAccount and the Job, and publishes the state *)
(* of the Job.  The controller does not watch the Dask resources: a pass   *)
(* that finds none, or one not running, is an error and is tried again.    *)
(* As in DaskController, each API call is a step.                          *)
(***************************************************************************)
EXTENDS Naturals

CONSTANTS
    Jobs,      \* the names of the DaskJob resources
    NoJob,     \* what an idle worker goroutine is working on
    Clusters,  \* the names of the Dask resources
    JobSpecs,  \* the specs users give a DaskJob
    Foreign,   \* children whose names are taken beforehand by another owner
    Removable  \* the children deleted by hand (bounds a run)

-----------------------------------------------------------------------------
\* (mutants of Rank) the Job comes before the volume claim it mounts; the status
\* comes first
RankJobEarly == [config |-> 1, pvc |-> 4, serviceAccount |-> 2, job |-> 3, status |-> 5]
RankStatusFirst == [config |-> 1, pvc |-> 2, serviceAccount |-> 3, job |-> 4, status |-> 0]

\* The API calls of a pass, in their order.
Rank == [config |-> 1, pvc |-> 2, serviceAccount |-> 3, job |-> 4, status |-> 5]

Calls == DOMAIN Rank
Child == Calls \ {"status"}

\* The kinds the manager watches (Owns): no ServiceAccount, no Dask.
Watched == {"config", "pvc", "job"}

Scripts == {"ipynb", "py"}  \* what CheckJobScript takes a script for
\* A builder reads the DaskJob and the settings of its Dask (daskjob_controller.go:148).
\* "broken" is what fails by the DaskJob's own doing; that an edit of the Dask makes a
\* builder fail, or work again, is for the order of steps an ApiError, which any call may
\* meet at any time, and is left out of what is claimed in the end.
SpecType == [cluster : Clusters,
             script  : Scripts \cup {"invalid"},
             report  : BOOLEAN,
             broken  : SUBSET Child] \* builders that fail on this spec

ASSUME JobsAssumption == NoJob \notin Jobs
ASSUME ClustersAssumption == Clusters # {}
ASSUME SpecsAssumption == JobSpecs \subseteq SpecType
ASSUME BoundsAssumption == Foreign \subseteq Child /\ Removable \subseteq Child

\* A child, in the API or in the cache.  Owners are those of DaskController; the
\* phase is that of a Job, the script what a ConfigMap holds or a Job mounts, and
\* report tells whether a Job mounts the volume claim.
Phases == {"active", "Complete", "Failed"}
Object == [owner  : {"none", "cur", "gone", "foreign"},
           phase  : Phases,
           script : Scripts \cup {"none", "invalid"},
           report : BOOLEAN]

Absent == [owner |-> "none", phase |-> "active", script |-> "none", report |-> FALSE]
Taken  == [Absent EXCEPT !.owner = "foreign"]

Exists(o) == o.owner # "none"
OwnedByJob(o) == o.owner \in {"cur", "gone"}

States == {"", "Pending", "Running", "Complete", "Failed"}
NoSpec == [cluster |-> CHOOSE c \in Clusters : TRUE, script |-> "invalid",
           report |-> FALSE, broken |-> {}]
NoDaskJob == [uid |-> "none", spec |-> NoSpec, state |-> ""]
Idle == [key |-> NoJob, uid |-> "none", spec |-> NoSpec, state |-> "",
         todo |-> {}, stale |-> FALSE]

VARIABLES
    dask,     \* the Dask resources: absent, not running, or running
    cdask,    \* the same in the cache
    daskjob,  \* the DaskJob resources, as the API server has them
    live,     \* their children, as the API server has them
    cjob,     \* the DaskJob resources in the controller's cache
    cached,   \* the watched children in the controller's cache
    pending,  \* objects whose cached copy is out of date: an event is due
    queue,    \* the work queue: names to reconcile, without duplicates
    rec       \* the pass in progress

vars == <<dask, cdask, daskjob, live, cjob, cached, pending, queue, rec>>

DaskStates == {"absent", "building", "running"}
JobType == [uid : {"none", "cur"}, spec : SpecType, state : States]
CachedJobType == [uid : {"none", "cur", "gone"}, spec : SpecType, state : States]
PassType == [key : Jobs \cup {NoJob}, uid : {"none", "cur", "gone"}, spec : SpecType,
             state : States, todo : SUBSET Calls, stale : BOOLEAN]

\* The variables have their types; a pass in progress still has to publish its
\* state, and an idle worker holds nothing.
TypeOK ==
    /\ dask \in [Clusters -> DaskStates]
    /\ cdask \in [Clusters -> DaskStates]
    /\ daskjob \in [Jobs -> JobType]
    /\ live \in [Jobs -> [Child -> Object]]
    /\ cjob \in [Jobs -> CachedJobType]
    /\ cached \in [Jobs -> [Watched -> Object]]
    /\ pending \in [Jobs -> SUBSET (Watched \cup {"daskjob"})]
    /\ queue \in SUBSET Jobs
    /\ rec \in PassType
    /\ rec.key = NoJob => rec = Idle
    /\ rec.key \in Jobs => "status" \in rec.todo

Beforehand == [c \in Child |-> IF c \in Foreign THEN Taken ELSE Absent]

Init ==
    /\ dask = [c \in Clusters |-> "absent"]
    /\ cdask = dask
    /\ daskjob = [j \in Jobs |-> NoDaskJob]
    /\ live = [j \in Jobs |-> Beforehand]
    /\ cjob = daskjob
    /\ cached = [j \in Jobs |-> [c \in Watched |-> Beforehand[c]]]
    /\ pending = [j \in Jobs |-> {}]
    /\ queue = {}
    /\ rec = Idle

-----------------------------------------------------------------------------
(***************************************************************************)
(* What a pass decides from its snapshot.                                  *)
(***************************************************************************)

\* (mutant of JobState) the state stays as the pass first sets it until the Job
\* is there
JobStateBuilding(job) == IF ~Exists(job) THEN "Building"
                         ELSE IF job.phase = "active" THEN "Running" ELSE job.phase

\* A Job that is not finished - or not there - counts as running.
JobState(job) == IF job.phase = "active" THEN "Running" ELSE job.phase

\* (mutant of ToDo) the ConfigMap is created without a lookup
ToDoBlind(s, kids) ==
    {"config", "status"}
    \cup {c \in {"pvc"} : ~Exists(kids["job"]) /\ s.report /\ ~Exists(kids["pvc"])}
    \cup {c \in {"serviceAccount", "job"} : ~Exists(kids["job"])}

\* The API calls the pass is going to make: the ConfigMap is looked up for itself,
\* the ServiceAccount only through the Job, the claim through both.
ToDo(s, kids) ==
    {c \in {"config"} : ~Exists(kids["config"])}
    \cup {c \in {"pvc"} : ~Exists(kids["job"]) /\ s.report /\ ~Exists(kids["pvc"])}
    \cup {c \in {"serviceAccount", "job"} : ~Exists(kids["job"])}
    \cup {"status"}

\* resourceDetails gives up on a Job of another owner.
DetailsOk(kids) == kids["job"].owner # "foreign"

Due(op) == /\ rec.key \in Jobs
           /\ op \in rec.todo
           /\ \A x \in rec.todo : Rank[op] <= Rank[x]

-----------------------------------------------------------------------------
(***************************************************************************)
(* The reconciler.                                                         *)
(***************************************************************************)
Start(j, state, todo) ==
    /\ queue' = queue \ {j}
    /\ rec' = [key   |-> j,
               uid   |-> cjob[j].uid,
               spec  |-> cjob[j].spec,
               state |-> state,
               todo  |-> todo,
               stale |-> "daskjob" \in pending[j]]
    /\ UNCHANGED <<dask, cdask, daskjob, live, cjob, cached, pending>>

\* Reconcile starts on j, whose Dask is running and whose script is usable.
\* Where the Dask is there and not running, where CheckJobScript refuses the
\* script or resourceDetails finds a Job of another owner, the pass ends with an
\* error and j is queued again, which changes nothing.
Begin(j) ==
    /\ rec = Idle
    /\ j \in queue
    /\ cjob[j].uid # "none"
    /\ cdask[cjob[j].spec.cluster] = "running"
    /\ cjob[j].spec.script # "invalid"
    /\ DetailsOk(cached[j])
    /\ Start(j, JobState(cached[j]["job"]), ToDo(cjob[j].spec, cached[j]))

\* (mutant of BeginPending) a Dask that is not running is reported as well
BeginNotRunning(j) ==
    /\ rec = Idle
    /\ j \in queue
    /\ cjob[j].uid # "none"
    /\ cdask[cjob[j].spec.cluster] # "running"
    /\ Start(j, IF cdask[cjob[j].spec.cluster] = "absent" THEN "Pending" ELSE "Building",
             {"status"})

\* There is no such Dask: the state says so, whatever it said before, and the
\* pass ends with an error.
BeginPending(j) ==
    /\ rec = Idle
    /\ j \in queue
    /\ cjob[j].uid # "none"
    /\ cdask[cjob[j].spec.cluster] = "absent"
    /\ Start(j, "Pending", {"status"})

\* Reconcile on a name the cache no longer holds: nothing to do.
BeginGone(j) ==
    /\ rec = Idle
    /\ j \in queue
    /\ cjob[j].uid = "none"
    /\ queue' = queue \ {j}
    /\ UNCHANGED <<dask, cdask, daskjob, live, cjob, cached, pending, rec>>

\* A name must be free and its builder succeed; an update needs the latest copy.
Accepted(op) ==
    \/ op \in Child /\ ~Exists(live[rec.key][op]) /\ op \notin rec.spec.broken
    \/ op = "status" /\ ~rec.stale

\* The script a ConfigMap is filled with, and the one a Job mounts from it.
ScriptOf(c) == IF c \in {"config", "job"} THEN rec.spec.script ELSE "none"

\* Only a Job mounts the volume claim, when its spec wants a report.
MountsReport(c) == c = "job" /\ rec.spec.report

\* A child is created for the DaskJob the pass has read, which may be gone by now.
Create(c) ==
    LET j == rec.key IN
    /\ live' = [live EXCEPT ![j][c] = [owner  |-> rec.uid,
                                      phase  |-> "active",
                                      script |-> ScriptOf(c),
                                      report |-> MountsReport(c)]]
    /\ pending' = [pending EXCEPT ![j] = @ \cup ({c} \cap Watched)]
    /\ UNCHANGED daskjob

\* An update that changes nothing makes no new version, hence no event.
SaveStatus ==
    LET j == rec.key IN
    /\ daskjob' = [daskjob EXCEPT ![j].state = rec.state]
    /\ pending' = IF daskjob[j].state = rec.state THEN pending
                  ELSE [pending EXCEPT ![j] = @ \cup {"daskjob"}]
    /\ UNCHANGED live

Apply(op) == \/ op \in Child /\ Create(op)
             \/ op = "status" /\ SaveStatus

\* (mutant of Fail) the error is logged and swallowed
FailQuietly == rec' = Idle /\ UNCHANGED queue

\* The pass ends with an error: the name goes back to the work queue.
Fail == rec' = Idle /\ queue' = queue \cup {rec.key}

\* The next API call succeeds; what a pending DaskJob has published it with is an
\* error all the same.
Call(op) ==
    /\ Due(op)
    /\ Accepted(op)
    /\ Apply(op)
    /\ \/ op # "status" /\ rec' = [rec EXCEPT !.todo = @ \ {op}] /\ UNCHANGED queue
       \/ op = "status" /\ rec.state # "Pending" /\ rec' = Idle /\ UNCHANGED queue
       \/ op = "status" /\ rec.state = "Pending" /\ Fail
    /\ UNCHANGED <<dask, cdask, cjob, cached>>

\* The next builder fails, or the API refuses the call (AlreadyExists, Conflict).
Refused(op) ==
    /\ Due(op)
    /\ ~Accepted(op)
    /\ Fail
    /\ UNCHANGED <<dask, cdask, daskjob, live, cjob, cached, pending>>

-----------------------------------------------------------------------------
(***************************************************************************)
(* The cluster around it.                                                  *)
(***************************************************************************)

\* (mutant of Deliver) the Jobs are not among the kinds that are owned
DeliverNoJob(j, o) ==
    /\ o \in pending[j]
    /\ pending' = [pending EXCEPT ![j] = @ \ {o}]
    /\ queue' = IF o = "job" THEN queue ELSE queue \cup {j}
    /\ cjob' = IF o = "daskjob" THEN [cjob EXCEPT ![j] = daskjob[j]] ELSE cjob
    /\ cached' = IF o = "daskjob" THEN cached ELSE [cached EXCEPT ![j][o] = live[j][o]]
    /\ UNCHANGED <<dask, cdask, daskjob, live, rec>>

\* The watch brings the cached copy up to date and queues the DaskJob: itself, or
\* the controlling owner of the object in any version the watch went through.
Deliver(j, o) ==
    /\ o \in pending[j]
    /\ pending' = [pending EXCEPT ![j] = @ \ {o}]
    /\ IF o = "daskjob"
       THEN /\ cjob' = [cjob EXCEPT ![j] = daskjob[j]]
            /\ queue' = queue \cup {j}
            /\ UNCHANGED cached
       ELSE /\ cached' = [cached EXCEPT ![j][o] = live[j][o]]
            /\ queue' = IF cached[j][o].owner = "foreign" /\ ~OwnedByJob(live[j][o])
                        THEN queue ELSE queue \cup {j}
            /\ UNCHANGED cjob
    /\ UNCHANGED <<dask, cdask, daskjob, live, rec>>

\* The cached Dask is brought up to date, for the other controller's sake: no
\* DaskJob is queued for it.
DeliverDask(c) ==
    /\ cdask[c] # dask[c]
    /\ cdask' = [cdask EXCEPT ![c] = dask[c]]
    /\ UNCHANGED <<dask, daskjob, live, cjob, cached, pending, queue, rec>>

\* The periodic resync of the informers.
Resync(j) ==
    /\ cjob[j].uid # "none"
    /\ queue' = queue \cup {j}
    /\ UNCHANGED <<dask, cdask, daskjob, live, cjob, cached, pending, rec>>

\* A child is changed by someone other than the reconciler, which never updates
\* one and so has no copy that is outdated by it.
Becomes(j, c, o) ==
    /\ live' = [live EXCEPT ![j][c] = o]
    /\ pending' = [pending EXCEPT ![j] = @ \cup ({c} \cap Watched)]
    /\ UNCHANGED <<dask, cdask, daskjob, cjob, cached, queue, rec>>

GarbageCollect(j, c) ==
    /\ live[j][c].owner = "gone"
    /\ Becomes(j, c, Absent)

\* The Job's pod comes to an end.
JobEnds(j) ==
    /\ Exists(live[j]["job"])
    /\ live[j]["job"].phase = "active"
    /\ \E p \in {"Complete", "Failed"} :
          Becomes(j, "job", [live[j]["job"] EXCEPT !.phase = p])

\* A Dask is created, reports another state, or is deleted.
DaskChanges(c) ==
    /\ \E s \in DaskStates \ {dask[c]} :
          /\ s = "running" => dask[c] = "building"
          /\ dask' = [dask EXCEPT ![c] = s]
    /\ UNCHANGED <<cdask, daskjob, live, cjob, cached, pending, queue, rec>>

-----------------------------------------------------------------------------
(***************************************************************************)
(* The users.                                                              *)
(***************************************************************************)

\* The DaskJob j has a new version: a pass on it can no longer update its copy.
Announced(j) ==
    /\ pending' = [pending EXCEPT ![j] = @ \cup {"daskjob"}]
    /\ rec' = IF rec.key = j THEN [rec EXCEPT !.stale = TRUE] ELSE rec

CreateDaskJob(j, s) ==
    /\ daskjob[j].uid = "none"
    /\ daskjob' = [daskjob EXCEPT ![j] = [uid |-> "cur", spec |-> s, state |-> ""]]
    /\ Announced(j)
    /\ UNCHANGED <<dask, cdask, live, cjob, cached, queue>>

EditDaskJob(j, s) ==
    /\ daskjob[j].uid = "cur"
    /\ daskjob[j].spec # s
    /\ daskjob' = [daskjob EXCEPT ![j].spec = s]
    /\ Announced(j)
    /\ UNCHANGED <<dask, cdask, live, cjob, cached, queue>>

DeleteChild(j, c) ==
    /\ Exists(live[j][c])
    /\ Becomes(j, c, Absent)

\* The owner "cur" becomes an owner that is gone.
Orphaned(o) == IF o.owner = "cur" THEN [o EXCEPT !.owner = "gone"] ELSE o
Deceased(x) == IF x.uid = "cur" THEN [x EXCEPT !.uid = "gone"] ELSE x

\* The DaskJob is deleted; its children stay until the garbage collector's turn.
DeleteDaskJob(j) ==
    /\ daskjob[j].uid = "cur"
    /\ daskjob' = [daskjob EXCEPT ![j] = NoDaskJob]
    /\ live' = [live EXCEPT ![j] = [c \in Child |-> Orphaned(live[j][c])]]
    /\ cjob' = [cjob EXCEPT ![j] = Deceased(@)]
    /\ cached' = [cached EXCEPT ![j] = [c \in Watched |-> Orphaned(cached[j][c])]]
    /\ pending' = [pending EXCEPT ![j] = @ \cup {"daskjob"}]
    /\ rec' = IF rec.key = j THEN [Deceased(rec) EXCEPT !.stale = TRUE] ELSE rec
    /\ UNCHANGED <<dask, cdask, queue>>

-----------------------------------------------------------------------------
(***************************************************************************)
(* Faults.                                                                 *)
(***************************************************************************)

\* An API call fails without an effect: throttling, a webhook, no connection.
ApiError ==
    /\ rec.key \in Jobs
    /\ Fail
    /\ UNCHANGED <<dask, cdask, daskjob, live, cjob, cached, pending>>

\* An API call takes effect and its answer is lost.
LostReply(op) ==
    /\ Due(op)
    /\ Accepted(op)
    /\ Apply(op)
    /\ Fail
    /\ UNCHANGED <<dask, cdask, cjob, cached>>

\* The operator dies and starts again: fresh caches, and an event for every
\* object listed, as long as it is a DaskJob or belongs to one.
Crash ==
    /\ rec' = Idle
    /\ cdask' = dask
    /\ cjob' = daskjob
    /\ cached' = [j \in Jobs |-> [c \in Watched |-> live[j][c]]]
    /\ pending' = [j \in Jobs |-> {}]
    /\ queue' = {j \in Jobs : \/ daskjob[j].uid # "none"
                              \/ \E c \in Watched : OwnedByJob(live[j][c])}
    /\ UNCHANGED <<dask, daskjob, live>>

-----------------------------------------------------------------------------
Reconciler == \/ \E j \in Jobs : Begin(j) \/ BeginPending(j) \/ BeginGone(j)
              \/ \E op \in Calls : Call(op) \/ Refused(op)

ControlPlane == \/ \E j \in Jobs : \/ \E o \in pending[j] : Deliver(j, o)
                                   \/ Resync(j)
                                   \/ \E c \in Child : GarbageCollect(j, c)
                \/ \E c \in Clusters : DeliverDask(c)

Workload == \/ \E j \in Jobs : JobEnds(j)
            \/ \E c \in Clusters : DaskChanges(c)

Users == \E j \in Jobs : \E s \in JobSpecs : CreateDaskJob(j, s) \/ EditDaskJob(j, s)

Removals == \E j \in Jobs : \/ DeleteDaskJob(j)
                            \/ \E c \in Removable : DeleteChild(j, c)

Faults == ApiError \/ Crash \/ \E op \in Calls : LostReply(op)

Next == Reconciler \/ ControlPlane \/ Workload \/ Users \/ Removals \/ Faults

\* No DaskJob and no child of one is ever deleted.
NextKept == Reconciler \/ ControlPlane \/ Workload \/ Users \/ Faults

Spec == Init /\ [][Next]_vars
SpecKept == Init /\ [][NextKept]_vars

(***************************************************************************)
(* Fairness, as of the Dask controller: a queued name gets its turn, a     *)
(* pass runs on, watch events arrive, the garbage collector works.         *)
(***************************************************************************)
Fairness ==
    /\ \A j \in Jobs : SF_vars(Begin(j) \/ BeginPending(j) \/ BeginGone(j))
    /\ WF_vars(\E op \in Calls : Call(op) \/ Refused(op))
    /\ \A j \in Jobs : \A o \in Watched \cup {"daskjob"} : WF_vars(Deliver(j, o))
    /\ \A c \in Clusters : WF_vars(DeliverDask(c))
    /\ \A j \in Jobs : \A c \in Child : WF_vars(GarbageCollect(j, c))

FairSpecKept == SpecKept /\ Fairness

-----------------------------------------------------------------------------
(***************************************************************************)
(* What is settled, and what is right.                                     *)
(***************************************************************************)

\* Nothing is under way or announced for j.
Settled(j) == j \notin queue /\ rec.key # j /\ pending[j] = {}

\* The ConfigMap and the Job are there, unless their names are taken, and the
\* DaskJob says how the Job stands.
Reported(j) ==
    /\ "config" \notin Foreign => Exists(live[j]["config"])
    /\ "job" \notin Foreign => /\ Exists(live[j]["job"])
                              /\ daskjob[j].state = JobState(live[j]["job"])

\* The ServiceAccount exists, the Job does not, and no pass is about to make it.
HalfMade(j) == /\ Exists(live[j]["serviceAccount"])
               /\ ~Exists(live[j]["job"])
               /\ ~(rec.key = j /\ "job" \in rec.todo /\ "serviceAccount" \notin rec.todo)

\* The script is of no known kind, or a builder fails on the spec.
Broken(j) == daskjob[j].spec.script = "invalid" \/ daskjob[j].spec.broken # {}

-----------------------------------------------------------------------------
(***************************************************************************)
(* Safety.                                                                 *)
(***************************************************************************)

\* As long as nothing is deleted, a Job is there only once what its pod mounts
\* and runs under is: the ConfigMap, the ServiceAccount and the volume claim.
JobDependencies == \A j \in Jobs : OwnedByJob(live[j]["job"]) =>
    /\ Exists(live[j]["config"])
    /\ Exists(live[j]["serviceAccount"])
    /\ live[j]["job"].report => Exists(live[j]["pvc"])

\* As long as nothing is deleted, a DaskJob says that it runs only when its Job
\* has been created, and says how it ended only as it did end.
StateTrue == \A j \in Jobs :
    /\ daskjob[j].state = "Running" => Exists(live[j]["job"])
    /\ daskjob[j].state \in {"Complete", "Failed"} =>
          live[j]["job"].phase = daskjob[j].state

\* No wake-up is lost: a DaskJob that is neither queued, nor in progress, nor
\* about to get an event has its ConfigMap, its Job, and the Job's state.
QuiescentMeansReported == \A j \in Jobs :
    daskjob[j].uid = "cur" /\ Settled(j) => Reported(j)

\* An end is announced for a Job that has ended so - even if that is the Job of
\* an earlier DaskJob of the name - or the DaskJob will be looked at again.
EndCertified == [][\A j \in Jobs :
    /\ daskjob'[j].state \in {"Complete", "Failed"} \ {daskjob[j].state}
    /\ "job" \notin Foreign
    =>
        \/ live[j]["job"].phase = daskjob'[j].state
        \/ "job" \in pending'[j]
        \/ j \in queue']_vars

\* The object whose copy decides on a call.
DecidedBy == [config |-> "config", pvc |-> "pvc", serviceAccount |-> "job",
              job |-> "job", status |-> "daskjob"]

\* No pass fails in vain, for ever: where a call is refused, the builder fails on
\* the spec, or there is a ServiceAccount without its Job, or the copy the pass
\* has decided from is out of date, so that an event is due or has queued the name.
RefusedForAReason == [][\A j \in Jobs : \A op \in Calls :
    rec.key = j /\ Refused(op) =>
        \/ op \in rec.spec.broken
        \/ HalfMade(j)'
        \/ j \in queue
        \/ DecidedBy[op] \in pending[j]]_vars

Ends == {"Complete", "Failed"}

\* As long as nothing is deleted, an announced end is overwritten by nothing but
\* the complaint that the Dask is gone: a DaskJob that has ended never runs, is
\* never building and never ends otherwise again, in the eyes of its readers,
\* though every pass sets the state anew and may work from an old cache.
EndStays == [][\A j \in Jobs : daskjob[j].uid = "cur" /\ daskjob[j].state \in Ends =>
    daskjob'[j].state \in {daskjob[j].state, "Pending"}]_vars

-----------------------------------------------------------------------------
(***************************************************************************)
(* The inductive invariants behind them.                                   *)
(***************************************************************************)

\* Whatever is not announced is in the cache as it is in the API; a name taken
\* beforehand is one of Foreign.
CacheTrue == \A j \in Jobs :
    /\ "daskjob" \notin pending[j] => cjob[j] = daskjob[j]
    /\ \A c \in Watched \ pending[j] : cached[j][c] = live[j][c]
    /\ \A c \in Child : live[j][c].owner = "foreign" => c \in Foreign
    /\ \A c \in Watched : cached[j][c].owner = "foreign" => c \in Foreign

\* With the calls in todo still to come, the children are there and state st is
\* the Job's, but for those an event is due about.
Claim(j, todo, st) ==
    /\ \A g \in {"config", "job"} \ (Foreign \cup pending[j] \cup todo) : Exists(live[j][g])
    /\ "job" \notin Foreign \cup pending[j] => st = JobState(live[j]["job"])

\* A pass that no later event contradicts, and that will not be repeated anyway,
\* works from the truth.
PassTrue(j) == rec.key = j /\ j \notin queue /\ rec.state # "Pending" =>
    Claim(j, rec.todo, rec.state)

\* A DaskJob left alone is right, but for what an event is due about.
RestTrue(j) ==
    /\ daskjob[j].uid = "cur"
    /\ rec.key # j /\ j \notin queue /\ "daskjob" \notin pending[j]
    => Claim(j, {}, daskjob[j].state)

Inv == TypeOK /\ CacheTrue /\ \A j \in Jobs : PassTrue(j) /\ RestTrue(j)

\* What a pass is still to do is missing from the cache, or old in it, unless the
\* name has been queued since.
TodoTrue(j) == rec.key = j /\ j \notin queue =>
    /\ \A c \in Child \cap rec.todo : ~Exists(cached[j][DecidedBy[c]])
    /\ rec.stale => "daskjob" \in pending[j]

\* While nothing is deleted, the calls a pass has behind it have had their effect,
\* and what it found made is made.
PassKept(j) == rec.key = j =>
    /\ rec.uid = "cur"
    /\ rec.state = "Pending" => rec.todo = {"status"}
    /\ rec.state # "Pending" =>
          /\ \A c \in {"config", "job"} \ rec.todo : Exists(live[j][c])
          /\ "job" \in rec.todo =>
                \A c \in {"serviceAccount", "pvc"} \ rec.todo :
                    (c = "pvc" => rec.spec.report) => Exists(live[j][c])
    /\ rec.state \in {"Complete", "Failed"} => live[j]["job"].phase = rec.state

\* The cache knows of nothing that is not so, a Job that has ended stays.
CacheKept(j) ==
    /\ cjob[j].uid # "gone"
    /\ \A c \in Child : live[j][c].owner # "gone"
    /\ \A c \in Watched : Exists(cached[j][c]) => Exists(live[j][c])
    /\ live[j]["job"].phase # "active" => Exists(live[j]["job"])
    /\ cached[j]["job"].phase # "active" =>
          live[j]["job"].phase = cached[j]["job"].phase

KeptInv == /\ TypeOK
           /\ \A j \in Jobs : PassKept(j) /\ CacheKept(j)
           /\ JobDependencies
           /\ StateTrue

\* An end that is published, or about to be, is in the cache; a pass that takes
\* the Job for running works on a DaskJob that has not ended.
EndKept(j) ==
    /\ daskjob[j].state \in Ends => cached[j]["job"].phase = daskjob[j].state
    /\ rec.key = j /\ rec.state \in Ends => cached[j]["job"].phase = rec.state
    /\ rec.key = j /\ rec.state \notin Ends \cup {"Pending"} => daskjob[j].state \notin Ends

-----------------------------------------------------------------------------
(***************************************************************************)
(* Liveness, once users, Daskes, Jobs and faults have come to rest.        *)
(***************************************************************************)
\* From some time on, only the operator and the control plane take steps.
Rest == <>[][Reconciler \/ ControlPlane]_vars

\* A DaskJob whose Dask is running in the end is run and says how it stands,
\* though nothing tells the controller that the Dask has come up, unless a failure
\* has left its ServiceAccount without a Job or the spec is no good.
EventuallyReported == Rest => \A j \in Jobs :
    <>[](/\ daskjob[j].uid = "cur"
         /\ dask[daskjob[j].spec.cluster] = "running"
         => Reported(j) \/ HalfMade(j) \/ Broken(j))

-----------------------------------------------------------------------------
(***************************************************************************)
(* What the repository says and the code does not do.                      *)
(***************************************************************************)

\* api/v1/daskjob_types.go:34: "Dask script for this job".  The Job mounts the
\* script under the name it has in the spec the Job is made from; the ConfigMap
\* may be of an earlier spec, as it is never made again nor updated.
JobFindsItsScript == \A j \in Jobs :
    OwnedByJob(live[j]["job"]) => live[j]["config"].script = live[j]["job"].script
=============================================================================
