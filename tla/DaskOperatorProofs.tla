------------------------- MODULE DaskOperatorProofs -------------------------
(***************************************************************************)
(* Proofs about the two controllers together: the Daskes do what the       *)
(* DaskJob controller's own model says of them, and a Job is created for a *)
(* cluster that is there.                                                  *)
(***************************************************************************)
EXTENDS DaskOperator, DaskBringupProofs

-----------------------------------------------------------------------------
(***************************************************************************)
(* The Dask controller does as it does alone.                              *)
(***************************************************************************)
DaskInv == KeptInv /\ HasStatus

LEMMA DaskAlone == [OperatorNextKept]_allVars => [NextKept]_vars
  BY DEF OperatorNextKept, allVars, DaskStep, JobStep, CallFault, Restart, NextKept, Faults

LEMMA DaskInvInit == OperatorInit => DaskInv
  BY KeptInit, HasStatusInit DEF OperatorInit, DaskInv

LEMMA DaskInvNext == DaskInv /\ [OperatorNextKept]_allVars => DaskInv'
  BY DaskAlone, KeptNext, HasStatusNext DEF DaskInv, KeptInv

-----------------------------------------------------------------------------
(***************************************************************************)
(* The Daskes, as the DaskJob controller sees them.                        *)
(***************************************************************************)

\* A Dask that changes for the DaskJob controller changes as its model allows.
LEMMA SeenChange ==
    ASSUME TypeOK, NEW d \in Clusters, NEW x, dask' = [dask EXCEPT ![d] = x],
           x.uid = "none" \/ dask[d].uid # "none" \/ x.status.state # "Running",
           UNCHANGED <<cdask, jvars>>
    PROVE  [Job!NextKept]_Job!vars
  <1>1. dask \in [Clusters -> DaskType] /\ dask'[d] = x
    BY DEF TypeOK
  <1>2. [c \in Clusters |-> StateOf(dask'[c])] =
           [[c \in Clusters |-> StateOf(dask[c])] EXCEPT ![d] = StateOf(x)]
    BY <1>1
  <1>3. [c \in Clusters |-> StateOf(cdask'[c])] = [c \in Clusters |-> StateOf(cdask[c])]
    OBVIOUS
  <1>4. CASE StateOf(x) = StateOf(dask[d])
    <2>1. [c \in Clusters |-> StateOf(dask'[c])] = [c \in Clusters |-> StateOf(dask[c])]
      BY <1>2, <1>4
    <2>2. UNCHANGED Job!vars
      BY <1>3, <2>1 DEF Job!vars, jvars
    <2> QED BY <2>2
  <1>5. CASE StateOf(x) # StateOf(dask[d])
    <2>1. StateOf(x) \in Job!DaskStates \ {StateOf(dask[d])}
      BY <1>5 DEF StateOf, Job!DaskStates
    <2>2. StateOf(x) = "running" => StateOf(dask[d]) = "building"
      BY <1>5 DEF StateOf
    <2>3. Job!DaskChanges(d)
      BY <1>2, <1>3, <2>1, <2>2 DEF Job!DaskChanges, jvars
    <2> QED BY <2>3 DEF Job!NextKept, Job!Workload
  <1> QED BY <1>4, <1>5

\* A step that changes no Dask and no copy of one is none to the DaskJob controller.
LEMMA SeenNothing ==
    ASSUME UNCHANGED <<dask, cdask, jvars>>
    PROVE  UNCHANGED Job!vars
  BY DEF Job!vars, jvars

\* A call of the Dask controller, answered or not.
LEMMA SeenCall ==
    ASSUME TypeOK, NEW op \in Calls, Due(op), Apply(op), UNCHANGED <<cdask, jvars>>
    PROVE  [Job!NextKept]_Job!vars
  <1>1. CASE op # "status"
    BY <1>1, SeenNothing DEF Apply, Create, Scale
  <1>2. CASE op = "status"
    <2>1. rec.key \in Clusters /\ dask \in [Clusters -> DaskType] /\ dask[rec.key] \in DaskType
      BY DEF Due, TypeOK
    <2>2. SaveStatus
      BY <1>2, ChildNames DEF Apply
    <2> DEFINE x == [dask[rec.key] EXCEPT !.status = rec.status]
    <2>3. dask' = [dask EXCEPT ![rec.key] = x] /\ x.uid = dask[rec.key].uid
      BY <2>1, <2>2 DEF SaveStatus, DaskType
    <2>4. x.uid = "none" \/ dask[rec.key].uid # "none"
      BY <2>3
    <2> HIDE DEF x
    <2> QED BY <2>1, <2>3, <2>4, SeenChange
  <1> QED BY <1>1, <1>2

\* An event: about a Dask, it updates the copy the other controller reads.
LEMMA SeenDeliver ==
    ASSUME TypeOK, NEW d \in Clusters, NEW o \in pending[d], Deliver(d, o), UNCHANGED jvars
    PROVE  [Job!NextKept]_Job!vars
  <1>1. CASE o # "dask"
    BY <1>1, SeenNothing DEF Deliver
  <1>2. CASE o = "dask"
    <2>1. cdask' = [cdask EXCEPT ![d] = dask[d]] /\ dask' = dask
      BY <1>2 DEF Deliver
    <2>2. [c \in Clusters |-> StateOf(cdask'[c])] =
             [[c \in Clusters |-> StateOf(cdask[c])] EXCEPT ![d] = StateOf(dask[d])]
      BY <2>1 DEF TypeOK
    <2>3. CASE StateOf(cdask[d]) = StateOf(dask[d])
      <3>1. [c \in Clusters |-> StateOf(cdask'[c])] = [c \in Clusters |-> StateOf(cdask[c])]
        BY <2>2, <2>3
      <3>2. UNCHANGED Job!vars
        BY <2>1, <3>1 DEF Job!vars, jvars
      <3> QED BY <3>2
    <2>4. CASE StateOf(cdask[d]) # StateOf(dask[d])
      <3>1. Job!DeliverDask(d)
        BY <2>1, <2>2, <2>4 DEF Job!DeliverDask, jvars
      <3> QED BY <3>1 DEF Job!NextKept, Job!ControlPlane
    <2> QED BY <2>3, <2>4
  <1> QED BY <1>1, <1>2

\* Every step of the operator is a step of DaskJobController, or a stutter.
LEMMA JobView == TypeOK /\ [OperatorNextKept]_allVars => [Job!NextKept]_Job!vars
  <1> SUFFICES ASSUME TypeOK, [OperatorNextKept]_allVars PROVE [Job!NextKept]_Job!vars
    OBVIOUS
  <1>1. ASSUME UNCHANGED jvars,
               Reconciler \/ ControlPlane \/ Pods \/ Users
                  \/ ApiError \/ \E op \in Calls : LostReply(op)
        PROVE  [Job!NextKept]_Job!vars
    <2>1. ASSUME NEW op \in Calls, Call(op) \/ LostReply(op) PROVE [Job!NextKept]_Job!vars
      BY <1>1, <2>1, SeenCall DEF Call, LostReply
    <2>2. ASSUME NEW d \in Clusters, NEW o \in pending[d], Deliver(d, o)
          PROVE  [Job!NextKept]_Job!vars
      BY <1>1, <2>2, SeenDeliver
    <2>3. ASSUME NEW d \in Clusters, NEW s \in Specs, CreateDask(d, s)
          PROVE  [Job!NextKept]_Job!vars
      <3> DEFINE x == [uid |-> "cur", spec |-> s, status |-> NoStatus]
      <3>1. x.status.state # "Running"
        BY DEF NoStatus
      <3>2. dask' = [dask EXCEPT ![d] = x] /\ UNCHANGED <<cdask, jvars>>
        BY <1>1, <2>3 DEF CreateDask
      <3> HIDE DEF x
      <3> QED BY <3>1, <3>2, SeenChange
    <2>4. ASSUME NEW d \in Clusters, NEW s \in Specs, EditDask(d, s)
          PROVE  [Job!NextKept]_Job!vars
      <3> DEFINE x == [dask[d] EXCEPT !.spec = s]
      <3>1. dask \in [Clusters -> DaskType] /\ dask[d] \in DaskType /\ dask[d].uid # "none"
        BY <2>4 DEF TypeOK, EditDask
      <3>2. dask' = [dask EXCEPT ![d] = x] /\ UNCHANGED <<cdask, jvars>>
        BY <1>1, <2>4, <3>1 DEF EditDask
      <3> HIDE DEF x
      <3> QED BY <3>1, <3>2, SeenChange
    <2>5. ASSUME UNCHANGED <<dask, cdask>> PROVE [Job!NextKept]_Job!vars
      BY <1>1, <2>5, SeenNothing
    <2> QED BY <1>1, <2>1, <2>2, <2>3, <2>4, <2>5
        DEF Reconciler, ControlPlane, Pods, Users, Begin, BeginGone, Refused, Resync,
            GarbageCollect, Rollout, HandScale, Becomes, ApiError
  <1>2. CASE JobStep
    BY <1>2 DEF JobStep, JobEvents, Job!NextKept, Job!Users, Job!ControlPlane, Job!Workload
  <1>3. CASE UNCHANGED vars /\ (Job!ApiError \/ \E op \in Job!Calls : Job!LostReply(op))
    BY <1>3 DEF Job!NextKept, Job!Faults
  <1>4. CASE Restart
    BY <1>4 DEF Restart, Job!NextKept, Job!Faults
  <1>5. CASE UNCHANGED allVars
    BY <1>5, SeenNothing DEF allVars, vars
  <1> QED BY <1>1, <1>2, <1>3, <1>4, <1>5 DEF OperatorNextKept, DaskStep, CallFault

\* The operator implements DaskJobController: whatever is proved of that module
\* for Daskes that change as they like holds for those of the Dask controller.
THEOREM JobsAreAsModelled == OperatorKept => JobsAsModelled
  <1>1. OperatorInit => Init /\ Job!Init
    BY DEF OperatorInit
  <1>2. TypeOK /\ [OperatorNextKept]_allVars => TypeOK'
    BY DaskAlone, NextType DEF NextKept, Next
  <1> QED BY <1>1, <1>2, InitType, JobView, PTL
          DEF OperatorKept, JobsAsModelled, Job!SpecKept

\* A Dask that is deleted is absent from now on; its cached copy says what it said.
LEMMA SeenDeletion ==
    ASSUME TypeOK, NEW d \in Clusters, DeleteDask(d), UNCHANGED jvars
    PROVE  Job!DaskChanges(d)
  <1>1. /\ dask[d].uid = "cur"
        /\ dask' = [dask EXCEPT ![d] = NoDask]
        /\ cdask' = [cdask EXCEPT ![d] = Deceased(cdask[d])]
        /\ dask \in [Clusters -> DaskType] /\ cdask \in [Clusters -> CachedDaskType]
    BY DEF DeleteDask, TypeOK
  <1>2. StateOf(dask[d]) # "absent" /\ StateOf(NoDask) = "absent"
    BY <1>1 DEF StateOf, NoDask
  <1>3. [c \in Clusters |-> StateOf(dask'[c])] =
           [[c \in Clusters |-> StateOf(dask[c])] EXCEPT ![d] = "absent"]
    BY <1>1, <1>2
  <1>4. StateOf(Deceased(cdask[d])) = StateOf(cdask[d])
    <2>1. cdask[d] \in CachedDaskType
      BY <1>1
    <2> QED BY <2>1 DEF CachedDaskType, Deceased, StateOf
  <1>5. [c \in Clusters |-> StateOf(cdask'[c])] = [c \in Clusters |-> StateOf(cdask[c])]
    <2>1. ASSUME NEW c \in Clusters PROVE StateOf(cdask'[c]) = StateOf(cdask[c])
      BY <1>1, <1>4
    <2> QED BY <2>1
  <1> QED BY <1>2, <1>3, <1>5 DEF Job!DaskChanges, Job!DaskStates, jvars

LEMMA RemovalView == TypeOK /\ OperatorRemovals => [Job!Next]_Job!vars
  <1> SUFFICES ASSUME TypeOK, OperatorRemovals PROVE [Job!Next]_Job!vars
    OBVIOUS
  <1>1. ASSUME NEW d \in Clusters, DeleteDask(d), UNCHANGED jvars PROVE Job!Next
    BY <1>1, SeenDeletion DEF Job!Next, Job!Workload
  <1>2. ASSUME NEW d \in Clusters, NEW c \in Removable, DeleteChild(d, c), UNCHANGED jvars
        PROVE  UNCHANGED Job!vars
    BY <1>2, SeenNothing DEF DeleteChild, Becomes
  <1>3. CASE UNCHANGED vars /\ Job!Removals
    BY <1>3 DEF Job!Next
  <1> QED BY <1>1, <1>2, <1>3 DEF OperatorRemovals, Removals

\* With Daskes, DaskJobs and their children deleted at any moment the operator still
\* implements DaskJobController: what is proved of that module holds of it, too.
THEOREM JobsAreAlwaysAsModelled == OperatorSpec => Job!Spec
  <1> DEFINE N == OperatorNextKept \/ OperatorRemovals
  <1>1. OperatorInit => Init /\ Job!Init
    BY DEF OperatorInit
  <1>2. [N]_allVars => [Next]_vars
    <2>1. [OperatorNextKept]_allVars => [Next]_vars
      BY DaskAlone DEF NextKept, Next
    <2>2. OperatorRemovals => [Next]_vars
      BY DEF OperatorRemovals, Next
    <2> QED BY <2>1, <2>2
  <1>3. TypeOK /\ [N]_allVars => TypeOK'
    BY <1>2, NextType
  <1>4. TypeOK /\ [N]_allVars => [Job!Next]_Job!vars
    BY JobView, RemovalView DEF Job!Next, Job!NextKept
  <1> QED BY <1>1, <1>3, <1>4, InitType, PTL DEF OperatorSpec, Job!Spec

-----------------------------------------------------------------------------
(***************************************************************************)
(* A Job is created for a cluster that is there.                           *)
(***************************************************************************)
CoreMade(c) == \A g \in Core : Exists(live[c][g])

\* The variables of the DaskJob controller are functions and records of their
\* shape, and every DaskJob names a Dask.
DaskJobShaped(x) == /\ x = [uid |-> x.uid, spec |-> x.spec, state |-> x.state]
                    /\ x.spec.cluster \in Clusters
PassShaped ==
    /\ jrec = [key |-> jrec.key, uid |-> jrec.uid, spec |-> jrec.spec,
               state |-> jrec.state, todo |-> jrec.todo, stale |-> jrec.stale]
    /\ jrec.key \in Jobs => jrec.spec.cluster \in Clusters
Shaped ==
    /\ daskjob = [j \in Jobs |-> daskjob[j]]
    /\ cjob = [j \in Jobs |-> cjob[j]]
    /\ jlive = [j \in Jobs |-> [c \in Job!Child |-> jlive[j][c]]]
    /\ \A j \in Jobs : DaskJobShaped(daskjob[j]) /\ DaskJobShaped(cjob[j])
    /\ PassShaped

\* A Dask that runs, in the cache, has its core; so has the Dask of a pass that is
\* going to create a Job.
OnCluster ==
    /\ \A c \in Clusters : StateOf(cdask[c]) = "running" => CoreMade(c)
    /\ jrec.key \in Jobs /\ "job" \in jrec.todo => CoreMade(jrec.spec.cluster)

\* Nothing of a core is lost.
LEMMA CoreStays ==
    ASSUME DaskInv, [NextKept]_vars, NEW c \in Clusters, CoreMade(c)
    PROVE  CoreMade(c)'
  <1> DEFINE B == [d \in Clusters |-> StagesOf(live[d])]
             T == [d \in Clusters |-> dask[d].uid = "cur" /\ dask[d].status # NoStatus]
  <1>1. [Bringup!Next]_<<B, T>>
    BY BringupNext DEF DaskInv
  <1>2. B[c] \subseteq B'[c]
    BY <1>1 DEF Bringup!Next, Bringup!Complete, Bringup!Tell
  <1>3. StagesOf(live[c]) \subseteq StagesOf(live'[c])
    BY <1>2
  <1>4. \A g \in Core : \E s \in DOMAIN LastOf : LastOf[s] = g
    BY DEF Core, LastOf
  <1>5. ASSUME NEW g \in Core PROVE Exists(live'[c][g])
    <2>1. PICK s \in DOMAIN LastOf : LastOf[s] = g
      BY <1>4
    <2>2. s \in StagesOf(live[c])
      BY <2>1 DEF CoreMade, StagesOf
    <2> QED BY <1>3, <2>1, <2>2 DEF StagesOf
  <1> QED BY <1>5 DEF CoreMade

\* A Dask that says that it runs has its core.
LEMMA RunningHasCore ==
    ASSUME KeptInv, NEW c \in Clusters, StateOf(dask[c]) = "running"
    PROVE  CoreMade(c)
  <1>1. dask[c].status # NoStatus
    <2>1. dask[c].status.state = "Running" /\ NoStatus.state = ""
      BY DEF StateOf, NoStatus
    <2> QED BY <2>1
  <1> QED BY <1>1 DEF KeptInv, StatusWitnessed, CoreMade, Core

\* The cached Daskes that run have their core.
LEMMA SeenHasCore ==
    ASSUME DaskInv, OnCluster, [NextKept]_vars
    PROVE  (\A c \in Clusters : StateOf(cdask[c]) = "running" => CoreMade(c))'
  <1> SUFFICES ASSUME NEW c \in Clusters, StateOf(cdask'[c]) = "running"
               PROVE  CoreMade(c)'
    OBVIOUS
  <1>0. TypeOK
    BY DEF DaskInv, KeptInv
  <1>1. cdask'[c] = cdask[c] \/ cdask'[c] = dask[c]
    <2>1. ASSUME NEW d \in Clusters, NEW o \in pending[d], Deliver(d, o)
          PROVE  cdask'[c] = cdask[c] \/ cdask'[c] = dask[c]
      BY <1>0, <2>1 DEF Deliver, TypeOK
    <2>2. CASE Crash
      BY <2>2 DEF Crash
    <2>3. CASE UNCHANGED cdask
      BY <2>3
    <2> QED BY <2>1, <2>2, <2>3
        DEF NextKept, Reconciler, ControlPlane, Pods, Users, Faults, vars, Begin, BeginGone,
            Call, Refused, Resync, GarbageCollect, Rollout, HandScale, Becomes, CreateDask,
            EditDask, ApiError, LostReply
  <1>2. CoreMade(c)
    <2>1. StateOf(cdask[c]) = "running" \/ StateOf(dask[c]) = "running"
      BY <1>1
    <2> QED BY <2>1, RunningHasCore DEF OnCluster, DaskInv
  <1> QED BY <1>2, CoreStays

\* A step of a pass: begun, continued, marked stale, or ended.
LEMMA PassStep ==
    ASSUME DaskInv, Shaped, OnCluster, [NextKept]_vars,
           \/ jrec' = Job!Idle
           \/ jrec' = jrec
           \/ jrec' = [jrec EXCEPT !.stale = TRUE]
           \/ \E op : jrec' = [jrec EXCEPT !.todo = @ \ {op}]
    PROVE  /\ PassShaped'
           /\ (jrec.key \in Jobs /\ "job" \in jrec.todo => CoreMade(jrec.spec.cluster))'
  <1>1. CASE jrec' = Job!Idle
    BY <1>1, JobsAssumption DEF Job!Idle, PassShaped
  <1>2. CASE \/ jrec' = jrec
             \/ jrec' = [jrec EXCEPT !.stale = TRUE]
             \/ \E op : jrec' = [jrec EXCEPT !.todo = @ \ {op}]
    <2>1. /\ PassShaped'
          /\ jrec'.key = jrec.key /\ jrec'.spec = jrec.spec /\ jrec'.todo \subseteq jrec.todo
      BY <1>2 DEF Shaped, PassShaped
    <2>2. ASSUME jrec'.key \in Jobs, "job" \in jrec'.todo
          PROVE  CoreMade(jrec.spec.cluster)' /\ jrec'.spec = jrec.spec
      <3>1. CoreMade(jrec.spec.cluster) /\ jrec.spec.cluster \in Clusters
        BY <2>1, <2>2 DEF OnCluster, Shaped, PassShaped
      <3>2. PICK c \in Clusters : c = jrec.spec.cluster
        BY <3>1
      <3>3. CoreMade(c)'
        BY <3>1, <3>2, CoreStays
      <3> QED BY <2>1, <3>2, <3>3 DEF CoreMade
    <2> QED BY <2>1, <2>2
  <1> QED BY <1>1, <1>2

LEMMA ShapedInit == OperatorInit => Shaped /\ OnCluster
  <1> SUFFICES ASSUME OperatorInit PROVE Shaped /\ OnCluster
    OBVIOUS
  <1>1. DaskJobShaped(Job!NoDaskJob)
    <2>1. Job!NoSpec.cluster \in Clusters
      BY SomeCluster DEF Job!NoSpec
    <2> QED BY <2>1 DEF DaskJobShaped, Job!NoDaskJob
  <1>2. jrec = Job!Idle /\ jrec.key \notin Jobs
    BY JobsAssumption DEF OperatorInit, Job!Init, Job!Idle
  <1>3. PassShaped
    BY <1>2 DEF PassShaped, Job!Idle
  <1>4. \A c \in Clusters : StateOf(cdask[c]) # "running"
    BY DEF OperatorInit, Init, NoDask, StateOf
  <1>5. /\ daskjob = [j \in Jobs |-> daskjob[j]] /\ cjob = [j \in Jobs |-> cjob[j]]
        /\ \A j \in Jobs : daskjob[j] = Job!NoDaskJob /\ cjob[j] = Job!NoDaskJob
    BY DEF OperatorInit, Job!Init
  <1>6. jlive = [j \in Jobs |-> [c \in Job!Child |-> jlive[j][c]]]
    BY DEF OperatorInit, Job!Init, Job!Beforehand
  <1> QED BY <1>1, <1>2, <1>3, <1>4, <1>5, <1>6 DEF Shaped, OnCluster

\* What a Job that comes into being is created for.
Made == \A j \in Jobs :
    ~Job!Exists(jlive[j]["job"]) /\ Job!Exists(jlive'[j]["job"]) =>
        CoreMade(jrec.spec.cluster)

\* One child of a DaskJob is changed, and the shape stays.
LEMMA ChildChanged ==
    ASSUME Shaped, NEW j \in Jobs, NEW c \in Job!Child, NEW o,
           jlive' = [jlive EXCEPT ![j][c] = o]
    PROVE  /\ jlive' = [i \in Jobs |-> [x \in Job!Child |-> jlive'[i][x]]]
           /\ \A i \in Jobs : i # j \/ c # "job" => jlive'[i]["job"] = jlive[i]["job"]
           /\ c = "job" => jlive'[j]["job"] = o
  <1> DEFINE kids == [x \in Job!Child |-> IF x = c THEN o ELSE jlive[j][x]]
  <1>0. "job" \in Job!Child
    BY DEF Job!Child, Job!Calls, Job!Rank
  <1>1. jlive = [i \in Jobs |-> [x \in Job!Child |-> jlive[i][x]]]
    BY DEF Shaped
  <1>2. [jlive[j] EXCEPT ![c] = o] = kids
    BY <1>1
  <1>3. jlive' = [i \in Jobs |-> IF i = j THEN kids ELSE jlive[i]]
    BY <1>1, <1>2
  <1>4. \A i \in Jobs : jlive'[i] = IF i = j THEN kids ELSE jlive[i]
    BY <1>3
  <1>5. \A i \in Jobs : jlive'[i] = [x \in Job!Child |-> jlive'[i][x]]
    BY <1>1, <1>4
  <1>6. jlive' = [i \in Jobs |-> jlive'[i]]
    BY <1>3
  <1>7. jlive' = [i \in Jobs |-> [x \in Job!Child |-> jlive'[i][x]]]
    <2>1. [i \in Jobs |-> jlive'[i]] = [i \in Jobs |-> [x \in Job!Child |-> jlive'[i][x]]]
      BY <1>5
    <2> QED BY <1>6, <2>1
  <1>8. \A i \in Jobs : i # j \/ c # "job" => jlive'[i]["job"] = jlive[i]["job"]
    BY <1>0, <1>4
  <1>9. c = "job" => jlive'[j]["job"] = o
    <2>1. jlive'[j] = kids
      BY <1>4
    <2>2. kids[c] = o
      OBVIOUS
    <2> HIDE DEF kids
    <2> QED BY <2>1, <2>2
  <1> QED BY <1>7, <1>8, <1>9

\* The effect of a call of the DaskJob controller, answered or not.
LEMMA JobCall ==
    ASSUME DaskInv, Shaped, OnCluster,
           NEW op \in Job!Calls, Job!Due(op), Job!Apply(op)
    PROVE  /\ daskjob' = [j \in Jobs |-> daskjob'[j]]
           /\ \A j \in Jobs : DaskJobShaped(daskjob'[j])
           /\ jlive' = [j \in Jobs |-> [c \in Job!Child |-> jlive'[j][c]]]
           /\ Made
  <1>0. jrec.key \in Jobs /\ op \in jrec.todo
    BY DEF Job!Due
  <1>1. CASE op \in Job!Child /\ Job!Create(op)
    <2>1. daskjob' = daskjob
      BY <1>1 DEF Job!Create
    <2>2. PICK o : jlive' = [jlive EXCEPT ![jrec.key][op] = o]
      BY <1>1 DEF Job!Create
    <2>3. /\ jlive' = [i \in Jobs |-> [x \in Job!Child |-> jlive'[i][x]]]
          /\ \A i \in Jobs : i # jrec.key \/ op # "job" => jlive'[i]["job"] = jlive[i]["job"]
      BY <1>0, <1>1, <2>2, ChildChanged
    <2>4. Made
      BY <1>0, <2>3 DEF Made, OnCluster
    <2> QED BY <2>1, <2>3, <2>4 DEF Shaped
  <1>2. CASE op = "status" /\ Job!SaveStatus
    <2> DEFINE x == [daskjob[jrec.key] EXCEPT !.state = jrec.state]
    <2>1. DaskJobShaped(x)
      <3>1. DaskJobShaped(daskjob[jrec.key])
        BY <1>0 DEF Shaped
      <3> QED BY <3>1 DEF DaskJobShaped
    <2>2. daskjob' = [daskjob EXCEPT ![jrec.key] = x] /\ jlive' = jlive
      BY <1>2 DEF Job!SaveStatus
    <2> HIDE DEF x
    <2>3. /\ daskjob' = [j \in Jobs |-> daskjob'[j]]
          /\ \A j \in Jobs : DaskJobShaped(daskjob'[j])
      BY <1>0, <2>1, <2>2 DEF Shaped
    <2> QED BY <2>2, <2>3 DEF Shaped, Made
  <1> QED BY <1>1, <1>2 DEF Job!Apply

\* Every step keeps the shape and the core of the clusters that Jobs are for.
LEMMA OnClusterNext ==
    ASSUME DaskInv, Shaped, OnCluster, [OperatorNextKept]_allVars
    PROVE  Shaped' /\ OnCluster' /\ Made
  <1>0. [NextKept]_vars
    BY DaskAlone
  <1>c. (\A c \in Clusters : StateOf(cdask[c]) = "running" => CoreMade(c))'
    BY <1>0, SeenHasCore
  <1> DEFINE Kept == Shaped' /\ OnCluster' /\ Made
             PassKeeps == \/ jrec' = Job!Idle \/ jrec' = jrec
                          \/ jrec' = [jrec EXCEPT !.stale = TRUE]
                          \/ \E op : jrec' = [jrec EXCEPT !.todo = @ \ {op}]
  <1>p. ASSUME PassKeeps
        PROVE  /\ PassShaped'
               /\ (jrec.key \in Jobs /\ "job" \in jrec.todo => CoreMade(jrec.spec.cluster))'
    BY <1>0, <1>p, PassStep
  <1>r. ASSUME PassKeeps, UNCHANGED <<daskjob, jlive>>,
               cjob' = cjob \/ cjob' = daskjob
                  \/ \E j \in Jobs : cjob' = [cjob EXCEPT ![j] = daskjob[j]]
        PROVE  Kept
    <2>1. cjob' = [j \in Jobs |-> cjob'[j]] /\ \A j \in Jobs : DaskJobShaped(cjob'[j])
      BY <1>r DEF Shaped
    <2>2. PassShaped' /\ OnCluster'
      BY <1>c, <1>p, <1>r DEF OnCluster
    <2> QED BY <1>r, <2>1, <2>2 DEF Shaped, Made
  <1>1. CASE UNCHANGED jvars
    BY <1>1, <1>r DEF jvars
  <1>2. ASSUME NEW j \in Jobs, UNCHANGED vars, Job!Begin(j) PROVE Kept
    <2>1. /\ jrec'.key = j /\ jrec'.spec = cjob[j].spec
          /\ jrec' = [key |-> jrec'.key, uid |-> jrec'.uid, spec |-> jrec'.spec,
                      state |-> jrec'.state, todo |-> jrec'.todo, stale |-> jrec'.stale]
          /\ UNCHANGED <<daskjob, jlive, cjob>>
      BY <1>2 DEF Job!Begin, Job!Start
    <2>2. PICK c \in Clusters : c = cjob[j].spec.cluster
      BY DEF Shaped, DaskJobShaped
    <2>3. StateOf(cdask[c]) = "running" /\ live' = live
      BY <1>2, <2>2 DEF Job!Begin, vars
    <2>4. CoreMade(c)'
      BY <2>3 DEF OnCluster, CoreMade
    <2>5. PassShaped' /\ (jrec.key \in Jobs /\ "job" \in jrec.todo
                              => CoreMade(jrec.spec.cluster))'
      BY <2>1, <2>2, <2>4 DEF PassShaped
    <2> QED BY <1>c, <2>1, <2>5 DEF Shaped, OnCluster, Made
  <1>3. ASSUME NEW j \in Jobs, Job!BeginPending(j) PROVE Kept
    <2>1. /\ jrec'.key = j /\ jrec'.spec = cjob[j].spec /\ jrec'.todo = {"status"}
          /\ jrec' = [key |-> jrec'.key, uid |-> jrec'.uid, spec |-> jrec'.spec,
                      state |-> jrec'.state, todo |-> jrec'.todo, stale |-> jrec'.stale]
          /\ UNCHANGED <<daskjob, jlive, cjob>>
      BY <1>3 DEF Job!BeginPending, Job!Start
    <2>2. cjob[j].spec.cluster \in Clusters
      BY DEF Shaped, DaskJobShaped
    <2> QED BY <1>c, <2>1, <2>2 DEF Shaped, PassShaped, OnCluster, Made
  <1>4. ASSUME NEW op \in Job!Calls, Job!Call(op) \/ Job!LostReply(op) PROVE Kept
    <2>1. /\ daskjob' = [j \in Jobs |-> daskjob'[j]]
          /\ \A j \in Jobs : DaskJobShaped(daskjob'[j])
          /\ jlive' = [j \in Jobs |-> [c \in Job!Child |-> jlive'[j][c]]]
          /\ Made
      BY <1>4, JobCall DEF Job!Call, Job!LostReply
    <2>2. PassKeeps /\ cjob' = cjob
      BY <1>4 DEF Job!Call, Job!LostReply, Job!Fail
    <2>3. PassShaped' /\ OnCluster'
      BY <1>c, <1>p, <2>2 DEF OnCluster
    <2> QED BY <2>1, <2>2, <2>3 DEF Shaped
  <1>5. ASSUME NEW j \in Jobs, NEW o \in jpending[j], Job!Deliver(j, o) PROVE Kept
    BY <1>5, <1>r DEF Job!Deliver
  <1>6. ASSUME NEW j \in Jobs, Job!JobEnds(j) PROVE Kept
    <2>0. "job" \in Job!Child
      BY DEF Job!Child, Job!Calls, Job!Rank
    <2>1. PICK o : Job!Becomes(j, "job", o)
      BY <1>6 DEF Job!JobEnds
    <2>2. Job!Exists(jlive[j]["job"])
      BY <1>6 DEF Job!JobEnds
    <2>3. /\ jlive' = [i \in Jobs |-> [x \in Job!Child |-> jlive'[i][x]]]
          /\ \A i \in Jobs : i # j => jlive'[i]["job"] = jlive[i]["job"]
      BY <2>0, <2>1, ChildChanged DEF Job!Becomes
    <2>4. UNCHANGED <<daskjob, cjob, jrec>>
      BY <2>1 DEF Job!Becomes
    <2>5. PassShaped' /\ OnCluster'
      BY <1>c, <1>p, <2>4 DEF OnCluster
    <2> QED BY <2>2, <2>3, <2>4, <2>5 DEF Shaped, Made
  <1>7. ASSUME NEW j \in Jobs, NEW c \in Job!Child, Job!GarbageCollect(j, c) PROVE Kept
    <2>1. Job!Becomes(j, c, Job!Absent)
      BY <1>7 DEF Job!GarbageCollect
    <2>2. /\ jlive' = [i \in Jobs |-> [x \in Job!Child |-> jlive'[i][x]]]
          /\ \A i \in Jobs : i # j \/ c # "job" => jlive'[i]["job"] = jlive[i]["job"]
          /\ c = "job" => ~Job!Exists(jlive'[j]["job"])
      <3>1. ~Job!Exists(Job!Absent)
        BY DEF Job!Exists, Job!Absent
      <3> QED BY <2>1, <3>1, ChildChanged DEF Job!Becomes
    <2>3. UNCHANGED <<daskjob, cjob, jrec>>
      BY <2>1 DEF Job!Becomes
    <2>4. PassShaped' /\ OnCluster'
      BY <1>c, <1>p, <2>3 DEF OnCluster
    <2> QED BY <2>2, <2>3, <2>4 DEF Shaped, Made
  <1>8. ASSUME NEW j \in Jobs, NEW s \in JobSpecs,
               Job!CreateDaskJob(j, s) \/ Job!EditDaskJob(j, s)
        PROVE  Kept
    <2>1. s.cluster \in Clusters
      BY JobSpecsAssumption DEF Job!SpecType
    <2>2. PassKeeps /\ UNCHANGED <<jlive, cjob>>
      BY <1>8 DEF Job!CreateDaskJob, Job!EditDaskJob, Job!Announced
    <2>3. PICK x : daskjob' = [daskjob EXCEPT ![j] = x] /\ DaskJobShaped(x)
      <3>1. CASE Job!CreateDaskJob(j, s)
        <4>1. DaskJobShaped([uid |-> "cur", spec |-> s, state |-> ""])
          BY <2>1 DEF DaskJobShaped
        <4> QED BY <3>1, <4>1 DEF Job!CreateDaskJob
      <3>2. CASE Job!EditDaskJob(j, s)
        <4>1. DaskJobShaped(daskjob[j])
          BY DEF Shaped
        <4>2. DaskJobShaped([daskjob[j] EXCEPT !.spec = s])
          BY <2>1, <4>1 DEF DaskJobShaped
        <4>3. daskjob' = [daskjob EXCEPT ![j] = [daskjob[j] EXCEPT !.spec = s]]
          BY <3>2 DEF Job!EditDaskJob, Shaped
        <4> QED BY <4>2, <4>3
      <3> QED BY <1>8, <3>1, <3>2
    <2>4. daskjob' = [i \in Jobs |-> daskjob'[i]] /\ \A i \in Jobs : DaskJobShaped(daskjob'[i])
      BY <2>3 DEF Shaped
    <2>5. PassShaped' /\ OnCluster'
      BY <1>c, <1>p, <2>2 DEF OnCluster
    <2> QED BY <2>2, <2>4, <2>5 DEF Shaped, Made
  <1>9. CASE Job!Crash
    BY <1>9, <1>r DEF Job!Crash
  <1>10. ASSUME \/ \E j \in Jobs : Job!BeginGone(j) \/ Job!Resync(j)
                \/ \E op \in Job!Calls : Job!Refused(op)
                \/ Job!ApiError
         PROVE  Kept
    BY <1>10, <1>r DEF Job!BeginGone, Job!Resync, Job!Refused, Job!Fail, Job!ApiError
  <1>11. CASE UNCHANGED allVars
    BY <1>1, <1>11 DEF allVars
  <1> QED BY <1>1, <1>2, <1>3, <1>4, <1>5, <1>6, <1>7, <1>8, <1>9, <1>10, <1>11
      DEF OperatorNextKept, DaskStep, JobStep, JobEvents, CallFault, Restart,
          Job!Reconciler, Job!Users

\* While nothing is deleted, a Job is created only for a Dask whose configuration,
\* scheduler and workers have been created.
THEOREM JobsAreOnClusters == OperatorKept => JobOnCluster
  <1> DEFINE I == DaskInv /\ Shaped /\ OnCluster
             On == \A j \in Jobs :
                ~Job!Exists(jlive[j]["job"]) /\ Job!Exists(jlive'[j]["job"]) =>
                    \A g \in Core : Exists(live[jrec.spec.cluster][g])
  <1>1. OperatorInit => I
    BY DaskInvInit, ShapedInit
  <1>2. I /\ [OperatorNextKept]_allVars => I'
    BY DaskInvNext, OnClusterNext
  <1>3. I /\ [OperatorNextKept]_allVars => [On]_allVars
    BY OnClusterNext DEF Made, CoreMade
  <1>4. OperatorKept => [][On]_allVars
    BY <1>1, <1>2, <1>3, PTL DEF OperatorKept
  <1> QED BY <1>4 DEF JobOnCluster
=============================================================================
