---------------------------- MODULE DaskOperator ----------------------------
(***************************************************************************)
(* The operator as main.go starts it: one manager, one process, with the   *)
(* Dask controller and the DaskJob controller in it, over one API server   *)
(* and one set of caches.  DaskController is extended; DaskJobController   *)
(* is instantiated, with the Daskes it waits for being those of the other. *)
(*                                                                         *)
(* The two share the Dask resources and their cached copies: one writes    *)
(* the status, the other reads it, late.  And they die together.           *)
(***************************************************************************)
EXTENDS DaskController

CONSTANTS
    Jobs,        \* the names of the DaskJob resources
    NoJob,       \* what the idle goroutine of the DaskJob controller works on
    JobSpecs,    \* the specs users give a DaskJob
    JForeign,    \* children of DaskJobs whose names are taken beforehand
    JRemovable   \* children of DaskJobs deleted by hand

VARIABLES
    daskjob,   \* the DaskJob resources, as the API server has them
    jlive,     \* their children, as the API server has them
    cjob,      \* the DaskJob resources in the cache
    jcached,   \* their watched children in the cache
    jpending,  \* objects whose cached copy is out of date: an event is due
    jqueue,    \* the work queue of the DaskJob controller
    jrec       \* its pass in progress

jvars == <<daskjob, jlive, cjob, jcached, jpending, jqueue, jrec>>
allVars == <<vars, jvars>>

\* What the DaskJob controller sees of a Dask: whether there is one, and whether
\* its status says that it runs.
StateOf(x) == IF x.uid = "none" THEN "absent"
              ELSE IF x.status.state = "Running" THEN "running" ELSE "building"

Job == INSTANCE DaskJobController
    WITH Foreign <- JForeign, Removable <- JRemovable,
         dask <- [c \in Clusters |-> StateOf(dask[c])],
         cdask <- [c \in Clusters |-> StateOf(cdask[c])],
         live <- jlive, cached <- jcached, pending <- jpending,
         queue <- jqueue, rec <- jrec

ASSUME JobsAssumption == NoJob \notin Jobs
ASSUME SomeCluster == Clusters # {}
ASSUME JobSpecsAssumption == JobSpecs \subseteq Job!SpecType
ASSUME JobBoundsAssumption == JForeign \subseteq Job!Child /\ JRemovable \subseteq Job!Child

OperatorInit == Init /\ Job!Init

-----------------------------------------------------------------------------
(***************************************************************************)
(* The steps of the two controllers and of what is around each of them.    *)
(***************************************************************************)

\* The Dask controller, the events about Daskes and their children, the pods and
\* the users of Daskes; the watch brings the caches of both up to date at once.
DaskStep == (Reconciler \/ ControlPlane \/ Pods \/ Users) /\ UNCHANGED jvars

\* The DaskJob controller, the events about DaskJobs and their children, the
\* garbage collector, Jobs that end, the users of DaskJobs.
JobEvents == \E j \in Jobs : \/ \E o \in jpending[j] : Job!Deliver(j, o)
                             \/ Job!Resync(j)
                             \/ \E c \in Job!Child : Job!GarbageCollect(j, c)

JobStep ==
    /\ UNCHANGED vars
    /\ \/ Job!Reconciler
       \/ JobEvents
       \/ Job!Users
       \/ \E j \in Jobs : Job!JobEnds(j)

\* A call of either controller fails, or is answered in vain.
CallFault ==
    \/ (ApiError \/ \E op \in Calls : LostReply(op)) /\ UNCHANGED jvars
    \/ UNCHANGED vars /\ (Job!ApiError \/ \E op \in Job!Calls : Job!LostReply(op))

\* The process dies, and with it both controllers.
Restart == Crash /\ Job!Crash

\* As long as nothing is deleted.
OperatorNextKept == DaskStep \/ JobStep \/ CallFault \/ Restart
OperatorKept == OperatorInit /\ [][OperatorNextKept]_allVars

\* The users delete a Dask, a DaskJob, or a child of one.
OperatorRemovals == \/ Removals /\ UNCHANGED jvars
                    \/ UNCHANGED vars /\ Job!Removals
OperatorSpec == OperatorInit /\ [][OperatorNextKept \/ OperatorRemovals]_allVars

(***************************************************************************)
(* Fairness, as of the two controllers: each has a queue and a goroutine   *)
(* of its own.                                                             *)
(***************************************************************************)
JobFairness ==
    /\ \A j \in Jobs :
          SF_jvars(UNCHANGED vars /\ (Job!Begin(j) \/ Job!BeginPending(j) \/ Job!BeginGone(j)))
    /\ WF_jvars(UNCHANGED vars /\ \E op \in Job!Calls : Job!Call(op) \/ Job!Refused(op))
    /\ \A j \in Jobs : \A o \in Job!Watched \cup {"daskjob"} :
          WF_jvars(UNCHANGED vars /\ Job!Deliver(j, o))

FairOperatorKept == OperatorKept /\ Fairness /\ JobFairness

-----------------------------------------------------------------------------
(***************************************************************************)
(* What the composition promises.                                          *)
(***************************************************************************)

\* The Daskes do what DaskJobController says they do: every step of the operator
\* is one of the DaskJob controller and its world, or none of its business.
JobsAsModelled == Job!SpecKept

Core == {"config", "schedulerDeployment", "workerDeployment"}

\* As long as nothing is deleted, a Job is only created for a cluster whose
\* configuration, scheduler and workers have been created, although the state of
\* the Dask was read from the cache, some calls ago, and is written by the other
\* controller, whose first "Running" comes before it has counted anything.
JobOnCluster == [][\A j \in Jobs :
    ~Job!Exists(jlive[j]["job"]) /\ Job!Exists(jlive'[j]["job"]) =>
        \A g \in Core : Exists(live[jrec.spec.cluster][g])]_allVars

\* From some time on, only the operator and the control plane take steps.
AllRest == <>[][\/ (Reconciler \/ ControlPlane) /\ UNCHANGED jvars
                \/ UNCHANGED vars /\ (Job!Reconciler \/ JobEvents)]_allVars

\* Why a DaskJob may stay undone: part of a group has been made and the rest has
\* not, a spec that cannot be rendered, pods that are not ready.
Hindered(j, c) ==
    \/ Job!HalfMade(j) \/ Job!Broken(j)
    \/ HalfMade(c) \/ Broken(c)
    \/ \E g \in Deployments : live[c][g].phase = "rolling"

\* A user creates a Dask and a DaskJob for it, in any order: the cluster comes up,
\* the script is run on it and the DaskJob says how it stands, although nothing
\* wakes the DaskJob controller up when the cluster is there.
EventuallyRun == AllRest => \A j \in Jobs : <>[](
    LET c == daskjob[j].spec.cluster IN
    daskjob[j].uid = "cur" /\ dask[c].uid = "cur" => Job!Reported(j) \/ Hindered(j, c))
=============================================================================
